---- MODULE Spec2Model ----
(***************************************************************************)
(* SolTracer: the transaction simulator (src/core/simulator.ts), the       *)
(* execution-log parser (src/utils/log-parser.ts), the Anchor decoder      *)
(* (src/utils/anchor-utils.ts) and the commands of the CLI (src/cli).      *)
(*                                                                         *)
(* Text is modelled as a sequence of one-character strings, so that        *)
(* startsWith, includes and the regular expression of the parser are       *)
(* computed on the characters of a line, as the code computes them.        *)
(***************************************************************************)
EXTENDS Integers, Sequences, FiniteSets, TLC

VARIABLES
    logs,        \* the log stream handed to a function of log-parser.ts
    phase,       \* which function of log-parser.ts has been applied to logs
    grouped,     \* the object returned by parseTransactionLogs(logs)
    successful,  \* the value returned by isTransactionSuccessful(logs)
    ctorUrl,     \* the rpcUrl the simulator was constructed with
    rpcUrl,      \* TransactionSimulator.rpcUrl
    connection,  \* the endpoint of TransactionSimulator.connection
    inv,         \* the invocations of debugSignature / debugLocalTransaction in progress
    localTx,     \* the Transaction object the caller hands to debugLocalTransaction
    anchorIdl,   \* the IDL that anchorIdlMap holds for the program
    givenIx,     \* the instruction handed to decodeAnchorInstruction
    decoded,     \* the outcome of decodeAnchorInstruction(givenIx, anchorIdl, ...)
    derived,     \* the discriminators the lookup derived from the IDL's names
    cli          \* the command-line process: the command running, its output, its exit

logVars == <<logs, phase, grouped, successful>>
simVars == <<ctorUrl, rpcUrl, connection, inv, localTx, cli>>
decVars == <<anchorIdl, givenIx, decoded, derived>>
vars == <<logs, phase, grouped, successful, ctorUrl, rpcUrl, connection, inv, localTx,
          cli, anchorIdl, givenIx, decoded, derived>>

(***************************************************************************)
(* Bounds of the model.                                                    *)
(***************************************************************************)
\* longest log stream handed to parseTransactionLogs
MaxLogLen == 3
\* longest log stream handed to isTransactionSuccessful
MaxStatusLen == 6
\* debugSignature invocations a caller has in progress on one simulator
MaxInvocations == 2

(***************************************************************************)
(* String literals of log-parser.ts.                                       *)
(***************************************************************************)
LitProgramSp == <<"P","r","o","g","r","a","m"," ">>
LitSpInvokeBr == <<" ","i","n","v","o","k","e"," ","[">>
LitInvokeBr == <<"i","n","v","o","k","e"," ","[">>
LitCloseBr == <<"]">>
LitOne == <<"1">>
LitFailed == <<"f","a","i","l","e","d">>
LitErrorColon == <<"E","r","r","o","r",":">>
LitProgramLogSuccess == <<"P","r","o","g","r","a","m"," ","l","o","g",":"," ","S","u","c","c","e","s","s">>
\* the character class \d
Digits == {"0","1","2","3","4","5","6","7","8","9"}
\* logs.slice(-5)
LastFew == 5

(***************************************************************************)
(* String primitives (String.prototype.startsWith / includes).             *)
(***************************************************************************)
\* the text occurs in the line at position i
OccursAt(line, text, i) ==
    /\ i >= 1
    /\ i + Len(text) - 1 <= Len(line)
    /\ \A k \in 1..Len(text) : line[i + k - 1] = text[k]

StartsWith(line, text) == OccursAt(line, text, 1)

Includes(line, text) == \E i \in 1..(Len(line) + 1) : OccursAt(line, text, i)

(***************************************************************************)
(* log.match(/invoke \[(\d+)\]/): the capture group of the leftmost match, *)
(* or NoMatch (null).                                                      *)
(***************************************************************************)
NoMatch == <<"null">>

\* length of the maximal run of digits of the line that starts at position j
DigitRun(line, j) ==
    CHOOSE n \in 0..Len(line) :
        /\ j + n - 1 <= Len(line)
        /\ \A k \in 0..(n - 1) : line[j + k] \in Digits
        /\ (j + n > Len(line) \/ line[j + n] \notin Digits)

\* /invoke \[(\d+)\]/ matches at position i: "invoke [", one digit or more, "]"
InvokeMatchesAt(line, i) ==
    /\ OccursAt(line, LitInvokeBr, i)
    /\ LET j == i + Len(LitInvokeBr)
           n == DigitRun(line, j)
       IN  n >= 1 /\ OccursAt(line, LitCloseBr, j + n)

InvokeDepthMatch(line) ==
    LET hits == {i \in 1..Len(line) : InvokeMatchesAt(line, i)}
    IN  IF hits = {} THEN NoMatch
        ELSE LET i == CHOOSE h \in hits : \A g \in hits : h <= g
                 j == i + Len(LitInvokeBr)
             IN  SubSeq(line, j, j + DigitRun(line, j) - 1)

(***************************************************************************)
(* parseTransactionLogs (log-parser.ts:10-38).                             *)
(* instructionLogs is the object { [key: number]: string[] }: a function   *)
(* from the keys that were assigned to their arrays.                       *)
(***************************************************************************)
EmptyObject == <<>>

ParserInit ==
    [instructionLogs |-> EmptyObject, currentInstruction |-> 0, inInstruction |-> FALSE]

\* instructionLogs[currentInstruction].push(log)
PushLog(st, log) ==
    [st EXCEPT !.instructionLogs =
        [k \in DOMAIN st.instructionLogs |->
            IF k = st.currentInstruction
            THEN Append(st.instructionLogs[k], log)
            ELSE st.instructionLogs[k]]]

\* lines 22-25: inInstruction = true; currentInstruction++; create the bucket; push
OpenInstruction(st, log) ==
    LET cur == st.currentInstruction + 1
        opened == [instructionLogs |->
                       [k \in (DOMAIN st.instructionLogs) \cup {cur} |->
                           IF k \in DOMAIN st.instructionLogs
                           THEN st.instructionLogs[k] ELSE <<>>],
                   currentInstruction |-> cur,
                   inInstruction |-> TRUE]
    IN  PushLog(opened, log)

\* the body of logs.forEach (lines 15-35)
ParseLine(st, log) ==
    IF StartsWith(log, LitProgramSp) /\ Includes(log, LitSpInvokeBr)
    THEN LET matches == InvokeDepthMatch(log)
         IN  IF matches # NoMatch /\ Len(matches) > 0
             THEN IF matches = LitOne
                  THEN OpenInstruction(st, log)
                  ELSE IF st.inInstruction THEN PushLog(st, log) ELSE st
             ELSE st
    ELSE IF st.inInstruction THEN PushLog(st, log) ELSE st

RECURSIVE ParseFrom(_, _, _)
ParseFrom(st, logLines, i) ==
    IF i > Len(logLines) THEN st
    ELSE ParseFrom(ParseLine(st, logLines[i]), logLines, i + 1)

parseTransactionLogs(logLines) == ParseFrom(ParserInit, logLines, 1).instructionLogs

(***************************************************************************)
(* isTransactionSuccessful (log-parser.ts:71-82).                          *)
(***************************************************************************)
\* logs.slice(-5)
SliceLast(logLines, n) ==
    IF Len(logLines) <= n THEN logLines
    ELSE SubSeq(logLines, Len(logLines) - n + 1, Len(logLines))

isTransactionSuccessful(logLines) ==
    LET lastFewLogs == SliceLast(logLines, LastFew)
    IN  IF \E i \in 1..Len(lastFewLogs) :
               Includes(lastFewLogs[i], LitFailed) \/ Includes(lastFewLogs[i], LitErrorColon)
        THEN FALSE
        ELSE \E i \in 1..Len(logLines) : Includes(logLines[i], LitProgramLogSuccess)

(***************************************************************************)
(* The log lines the Solana runtime emits for a transaction, as the parser *)
(* expects them (log-parser.ts:46, :91, :109): invoke lines of the runtime *)
(* at a depth, lines logged by a program, and completion lines.            *)
(***************************************************************************)
LitProgramLogSp == <<"P","r","o","g","r","a","m"," ","l","o","g",":"," ">>
LitSpSuccess == <<" ","s","u","c","c","e","s","s">>
LitSpFailedSp == <<" ","f","a","i","l","e","d",":"," ">>
LitSpConsumedSp == <<" ","c","o","n","s","u","m","e","d"," ">>
LitUnitsTail == <<" ","o","f"," ","1","0","0","0"," ","c","o","m","p","u","t","e"," ","u","n","i","t","s">>

\* "Program <id> invoke [<depth>]"
InvokeLine(id, depth) == LitProgramSp \o id \o LitSpInvokeBr \o depth \o LitCloseBr
\* "Program log: <text>", text chosen by the program
ProgramLogLine(text) == LitProgramLogSp \o text
\* "Program <id> success"
SuccessLine(id) == LitProgramSp \o id \o LitSpSuccess
\* "Program <id> failed: <reason>"
FailedLine(id, reason) == LitProgramSp \o id \o LitSpFailedSp \o reason
\* "Program <id> consumed <n> of 1000 compute units"
ConsumedLine(id, n) == LitProgramSp \o id \o LitSpConsumedSp \o n \o LitUnitsTail

ProgramIds == {<<"P">>, <<"Q">>}
TextSuccess == <<"S","u","c","c","e","s","s">>
TextSpoof == <<"x"," ","i","n","v","o","k","e"," ","[","1","]">>
TextNoDepth == <<"t","o"," ","i","n","v","o","k","e"," ","[","x","]">>
TextError == <<"E","r","r","o","r",":"," ","x">>
TextReason == <<"e","r","r">>
Text200 == <<"2","0","0">>

\* the lines a stream handed to parseTransactionLogs is made of
GroupLines ==
    {InvokeLine(<<"P">>, <<"1">>), InvokeLine(<<"Q">>, <<"2">>),
     ProgramLogLine(TextSuccess), ProgramLogLine(TextSpoof), ProgramLogLine(TextNoDepth),
     ConsumedLine(<<"P">>, Text200), SuccessLine(<<"P">>)}

\* the lines a stream handed to isTransactionSuccessful is made of
StatusLines ==
    {InvokeLine(<<"P">>, <<"1">>), ProgramLogLine(TextSuccess), ProgramLogLine(TextError),
     FailedLine(<<"P">>, TextReason), SuccessLine(<<"P">>)}

StreamsOver(lines, n) == UNION {[1..k -> lines] : k \in 0..n}

(***************************************************************************)
(* The RPC endpoints (simulator.ts:107, :129, :152) and the endpoint a     *)
(* caller may construct the simulator with.                                *)
(***************************************************************************)
MainnetUrl == "https://api.mainnet-beta.solana.com"
DevnetUrl == "https://api.devnet.solana.com"
TestnetUrl == "https://api.testnet.solana.com"
LocalUrl == "http://localhost:8899"
\* an endpoint typed without its scheme, as --url or a custom RPC URL may be
SchemelessUrl == "localhost:8899"

\* the order in which debugSignature tries the well-known networks
FallbackUrls == <<MainnetUrl, DevnetUrl, TestnetUrl>>

\* the values of the constructor's rpcUrl
RpcUrls == {MainnetUrl, DevnetUrl, TestnetUrl, LocalUrl}

\* the characters of an endpoint's URL
UrlText(url) ==
    CASE url = MainnetUrl -> <<"h","t","t","p","s",":","/","/","a","p","i",".","m","a","i","n","n","e","t","-","b","e","t","a",".","s","o","l","a","n","a",".","c","o","m">>
      [] url = DevnetUrl -> <<"h","t","t","p","s",":","/","/","a","p","i",".","d","e","v","n","e","t",".","s","o","l","a","n","a",".","c","o","m">>
      [] url = TestnetUrl -> <<"h","t","t","p","s",":","/","/","a","p","i",".","t","e","s","t","n","e","t",".","s","o","l","a","n","a",".","c","o","m">>
      [] url = LocalUrl -> <<"h","t","t","p",":","/","/","l","o","c","a","l","h","o","s","t",":","8","8","9","9">>
      [] url = SchemelessUrl -> <<"l","o","c","a","l","h","o","s","t",":","8","8","9","9">>

LitMainnet == <<"m","a","i","n","n","e","t">>
LitDevnet == <<"d","e","v","n","e","t">>
LitTestnet == <<"t","e","s","t","n","e","t">>

\* mutant: the checks for devnet and testnet are swapped
getNetworkNameSwapped(url) ==
    IF Includes(UrlText(url), LitMainnet) THEN "mainnet"
    ELSE IF Includes(UrlText(url), LitTestnet) THEN "devnet"
    ELSE IF Includes(UrlText(url), LitDevnet) THEN "testnet"
    ELSE "unknown network"

\* getNetworkName (simulator.ts:534-544)
getNetworkName(url) ==
    IF Includes(UrlText(url), LitMainnet) THEN "mainnet"
    ELSE IF Includes(UrlText(url), LitDevnet) THEN "devnet"
    ELSE IF Includes(UrlText(url), LitTestnet) THEN "testnet"
    ELSE "unknown network"

(***************************************************************************)
(* JavaScript values: undefined, null, thrown errors, and formatError.     *)
(***************************************************************************)
Undefined == [kind |-> "undefined"]
Null == [kind |-> "null"]

\* new Error(message)
ErrorObject(message) == [kind |-> "Error", message |-> message]
\* a string
StringValue(text) == [kind |-> "string", text |-> text]
\* a number
NumberValue(n) == [kind |-> "number", value |-> n]
\* an array value
ArrayValue(items) == [kind |-> "array", items |-> items]
\* an own property of an object literal
Property(name, value) == [name |-> name, value |-> value]
\* a plain object, such as an error descriptor of the RPC: its own properties
\* in the order they were set
PlainObject(properties) == [kind |-> "object", properties |-> properties]

\* the text has no character
IsEmptyString(text) == ToString(text) \in {ToString(""), ToString(<<>>)}

\* the truthiness of a value, as `if (value)` takes it
Truthy(value) ==
    CASE value.kind \in {"undefined", "null"} -> FALSE
      [] value.kind = "string" -> ~IsEmptyString(value.text)
      [] value.kind = "number" -> value.value # 0
      [] value.kind = "boolean" -> value.value
      [] OTHER -> TRUE

\* err.message (line 50): the message of an Error, the property of that name
\* of a plain object, undefined for an array
GetMessage(err) ==
    CASE err.kind = "Error" -> StringValue(err.message)
      [] err.kind = "object" ->
            LET at == {n \in 1..Len(err.properties) : err.properties[n].name = "message"}
            IN  IF at = {} THEN Undefined
                ELSE err.properties[CHOOSE n \in at : TRUE].value
      [] OTHER -> Undefined

\* JSON.stringify(value) (line 56), as the pieces the text is made of.  An
\* Error has no enumerable own property; a property whose value is undefined
\* is left out of an object and written null in an array.
RECURSIVE JsonStringify(_)
JsonStringify(value) ==
    LET Separated(texts) ==
            [n \in 1..Len(texts) |-> IF n = 1 THEN texts[n] ELSE <<",">> \o texts[n]]
        Joined(texts) ==
            LET RECURSIVE Flat(_)
                Flat(k) == IF k > Len(texts) THEN <<>> ELSE Separated(texts)[k] \o Flat(k + 1)
            IN  Flat(1)
    IN  CASE value.kind \in {"null", "undefined"} -> <<"null">>
          [] value.kind = "string" -> <<"\"", value.text, "\"">>
          [] value.kind = "number" -> <<ToString(value.value)>>
          [] value.kind = "Error" -> <<"{", "}">>
          [] value.kind = "array" ->
                <<"[">> \o Joined([n \in 1..Len(value.items) |->
                                      JsonStringify(value.items[n])]) \o <<"]">>
          [] value.kind = "object" ->
                LET own == SelectSeq(value.properties, LAMBDA q : q.value # Undefined)
                IN  <<"{">> \o Joined([n \in 1..Len(own) |->
                                          <<"\"", own[n].name, "\"", ":">>
                                              \o JsonStringify(own[n].value)]) \o <<"}">>

\* formatError (simulator.ts:39-64)
formatError(err) ==
    IF err = Null \/ err = Undefined THEN "Unknown error"
    ELSE IF err.kind = "string" THEN err.text
    ELSE IF err.kind \in {"Error", "object", "array"}
    THEN IF Truthy(GetMessage(err))
         THEN IF GetMessage(err).kind = "string" THEN GetMessage(err).text
              ELSE GetMessage(err)
         ELSE JsonStringify(err)
    ELSE <<ToString(err.value)>>

\* `Transaction ${signature} not found on any network` (simulator.ts:174)
NotFoundOnAnyNetwork(signature) ==
    ErrorObject(<<"Transaction", signature, "not found on any network">>)
\* `Transaction ${signature} not found` (simulator.ts:456)
NotFoundOnRefetch(signature) == ErrorObject(<<"Transaction", signature, "not found">>)
\* the error a failed RPC call rejects with
TransportFailure == ErrorObject(<<"fetch failed">>)

(***************************************************************************)
(* The transactions the networks hold.  A signature names one message; the *)
(* record a network returns for it carries that network's slot.            *)
(***************************************************************************)
Signatures == {"sigLegacy", "sigV0"}

SystemProgramId == "11111111111111111111111111111111"

\* the header of a message: the payer signs and is writable, the programs are
\* read-only and do not sign
PayerSignsHeader(readonlyUnsigned) ==
    [numRequiredSignatures |-> 1,
     numReadonlySignedAccounts |-> 0,
     numReadonlyUnsignedAccounts |-> readonlyUnsigned]

\* a legacy Message: header, accountKeys and instructions (indices count from
\* 0; the data of a CompiledInstruction is a base-58 string)
LegacyMessage ==
    [header |-> PayerSignsHeader(2),
     accountKeys |-> <<"payer", "progP", "progQ">>,
     instructions |->
        <<[programIdIndex |-> 1, accounts |-> <<0>>,
           data |-> [kind |-> "string", text |-> <<"A">>]],
          [programIdIndex |-> 2, accounts |-> <<1, 0>>,
           data |-> [kind |-> "string", text |-> <<"B">>]]>>]

\* a MessageV0: header, staticAccountKeys and compiledInstructions (the data
\* of a MessageCompiledInstruction is a byte array)
V0Message ==
    [header |-> PayerSignsHeader(1),
     staticAccountKeys |-> <<"payer", "progP">>,
     compiledInstructions |->
        <<[programIdIndex |-> 1, accountKeyIndexes |-> <<0>>, data |-> <<1>>]>>]

MessageOf(signature) == IF signature = "sigLegacy" THEN LegacyMessage ELSE V0Message

\* the slot at which a network recorded the transaction
SlotOn(url) ==
    CASE url = MainnetUrl -> 101
      [] url = DevnetUrl -> 202
      [] url = TestnetUrl -> 303
      [] url = LocalUrl -> 404

NoTransaction == Null

\* the record getTransaction(signature) resolves to on the endpoint url
TransactionRecord(signature, url) ==
    [signature |-> signature, source |-> url, slot |-> SlotOn(url),
     blockTime |-> SlotOn(url) + 1]

\* element idx of a JavaScript array, idx counted from 0
At(array, idx) == array[idx + 1]

\* 'accountKeys' in message ? message.accountKeys
\*                          : message.getAccountKeys().staticAccountKeys (lines 180-182)
AccountKeysOf(message) ==
    IF "accountKeys" \in DOMAIN message THEN message.accountKeys
    ELSE message.staticAccountKeys

\* the account info an endpoint returns for a key that exists; the account of
\* a program is executable
AccountInfoOf(key) ==
    [lamports |-> 500, owner |-> SystemProgramId, data |-> <<>>,
     executable |-> key \in {"progP", "progQ", SystemProgramId}, rentEpoch |-> 0]

\* the answers of the dry-run endpoint: value.err and value.logs
\* value.err: null, or the descriptor {"InstructionError":[0,"Custom"]}
InstructionError ==
    PlainObject(<<Property("InstructionError",
                           ArrayValue(<<NumberValue(0), StringValue("Custom")>>))>>)

SimulationErrs == {Null, InstructionError}

SimulationLogs ==
    {Null,
     ArrayValue(<<InvokeLine(<<"P">>, <<"1">>), SuccessLine(<<"P">>),
                  InvokeLine(<<"Q">>, <<"1">>), SuccessLine(<<"Q">>)>>)}

SimulationValues == [err : SimulationErrs, logs : SimulationLogs]

(***************************************************************************)
(* Assembly of the trace (simulator.ts:211-304).  The simulator is built   *)
(* without an anchorIdlMap, as TransactionCommand.execute builds it,       *)
(* so anchorIdlMap.has(programId) is false and no instruction is decoded.  *)
(* programNames holds what getProgramName returned for the instructions,   *)
(* in their order.                                                         *)
(***************************************************************************)
\* value.logs || []
LogsOrEmpty(value) == IF value.logs = Null THEN <<>> ELSE value.logs.items

\* logsByInstruction[index] || []
LogsOfIndex(logsByInstruction, index) ==
    IF index \in DOMAIN logsByInstruction THEN logsByInstruction[index] ELSE <<>>

\* mutant: the balance is reported as changed without being compared
RECURSIVE AccountDiffsFromUncompared(_, _, _, _)
AccountDiffsFromUncompared(accounts, accountKeys, pre, n) ==
    IF n > Len(accounts) THEN <<>>
    ELSE LET account == At(accountKeys, accounts[n])
             rest == AccountDiffsFromUncompared(accounts, accountKeys, pre, n + 1)
         IN  IF account \in DOMAIN pre
             THEN <<[pubkey |-> account,
                     before |-> pre[account],
                     after |-> pre[account],
                     changes |->
                        [data |-> FALSE,
                         balance |-> [kind |-> "pair",
                                      before |-> pre[account].account.lamports,
                                      after |-> pre[account].account.lamports]]]>> \o rest
             ELSE rest

\* lines 261-287: the diffs of the accounts of one instruction; pre is
\* preTransactionAccounts, postState is preState
RECURSIVE AccountDiffsFrom(_, _, _, _)
AccountDiffsFrom(accounts, accountKeys, pre, n) ==
    IF n > Len(accounts) THEN <<>>
    ELSE LET account == At(accountKeys, accounts[n])
             rest == AccountDiffsFrom(accounts, accountKeys, pre, n + 1)
         IN  IF account \in DOMAIN pre
             THEN LET preState == pre[account]
                      postState == preState
                  IN  <<[pubkey |-> account,
                         before |-> preState,
                         after |-> postState,
                         changes |->
                            [data |-> FALSE,
                             balance |->
                                IF preState.account.lamports # postState.account.lamports
                                THEN [kind |-> "pair",
                                      before |-> preState.account.lamports,
                                      after |-> postState.account.lamports]
                                ELSE Undefined]]>> \o rest
             ELSE rest

\* lines 229-290: the DebugInstruction of the instruction at index (from 0)
DebugInstructionOf(instruction, index, accountKeys, pre, logsByInstruction, programName) ==
    [programId |-> At(accountKeys, instruction.programIdIndex),
     programName |-> programName,
     instructionIndex |-> index,
     logs |-> LogsOfIndex(logsByInstruction, index),
     accountDiffs |-> AccountDiffsFrom(instruction.accounts, accountKeys, pre, 1)]

\* lines 228-230: the program ids getProgramName is called with, in the order
\* of the instructions; the placeholder of a versioned message calls it for none
ProgramIdsOf(message) ==
    IF "instructions" \in DOMAIN message
    THEN [n \in 1..Len(message.instructions) |->
             At(AccountKeysOf(message), message.instructions[n].programIdIndex)]
    ELSE <<>>

\* lines 212-304: the DebugTransaction of a dry-run that completed, every
\* getProgramName having returned
AssembleTrace(signature, transaction, pre, value, url, programNames) ==
    LET message == MessageOf(transaction.signature)
        accountKeys == AccountKeysOf(message)
        logsByInstruction == parseTransactionLogs(LogsOrEmpty(value))
    IN  [signature |-> signature,
         success |-> (value.err = Null),
         error |-> IF value.err # Null THEN formatError(value.err) ELSE Undefined,
         instructions |->
            IF "instructions" \in DOMAIN message
            THEN [n \in 1..Len(message.instructions) |->
                     DebugInstructionOf(message.instructions[n], n - 1, accountKeys,
                                        pre, logsByInstruction, programNames[n])]
            ELSE <<[programId |-> SystemProgramId,
                    programName |-> StringValue("System Program"),
                    instructionIndex |-> 0,
                    logs |-> LogsOrEmpty(value),
                    accountDiffs |-> <<>>]>>,
         timestamp |-> IF transaction.blockTime = 0 THEN Undefined
                       ELSE transaction.blockTime,
         slot |-> transaction.slot,
         network |-> getNetworkName(url)]

\* mutant: the catch block reports the failure without its description
FailureTraceWithoutError(signature, error) ==
    [signature |-> signature,
     success |-> FALSE,
     error |-> Undefined,
     instructions |-> <<>>]

\* lines 305-313: the DebugTransaction the catch block returns
FailureTrace(signature, error) ==
    [signature |-> signature,
     success |-> FALSE,
     error |-> formatError(error),
     instructions |-> <<>>]

(***************************************************************************)
(* Buffers (anchor-utils.ts).  A Buffer is a sequence of bytes, 0..255; a  *)
(* string is a sequence of characters.  Buffer.from(name, 'utf8') and      *)
(* buffer.toString('hex') are computed on the characters and bytes.        *)
(***************************************************************************)
\* the UTF-8 code of the characters an instruction name is written with
Utf8Code ==
    "a" :> 97 @@ "b" :> 98 @@ "c" :> 99 @@ "d" :> 100 @@ "e" :> 101 @@
    "f" :> 102 @@ "g" :> 103 @@ "h" :> 104 @@ "i" :> 105 @@ "j" :> 106 @@
    "k" :> 107 @@ "l" :> 108 @@ "m" :> 109 @@ "n" :> 110 @@ "o" :> 111 @@
    "p" :> 112 @@ "q" :> 113 @@ "r" :> 114 @@ "s" :> 115 @@ "t" :> 116 @@
    "u" :> 117 @@ "v" :> 118 @@ "w" :> 119 @@ "x" :> 120 @@ "y" :> 121 @@
    "z" :> 122 @@ "A" :> 65 @@ "B" :> 66 @@ "C" :> 67 @@ "D" :> 68 @@
    "E" :> 69 @@ "F" :> 70 @@ "G" :> 71 @@ "H" :> 72 @@ "I" :> 73 @@
    "J" :> 74 @@ "K" :> 75 @@ "L" :> 76 @@ "M" :> 77 @@ "N" :> 78 @@
    "O" :> 79 @@ "P" :> 80 @@ "Q" :> 81 @@ "R" :> 82 @@ "S" :> 83 @@
    "T" :> 84 @@ "U" :> 85 @@ "V" :> 86 @@ "W" :> 87 @@ "X" :> 88 @@
    "Y" :> 89 @@ "Z" :> 90

\* Buffer.from(text, 'utf8')
BufferFromUtf8(text) == [k \in 1..Len(text) |-> Utf8Code[text[k]]]

HexDigits == <<"0","1","2","3","4","5","6","7","8","9","a","b","c","d","e","f">>

\* buffer.toString('hex')
RECURSIVE ToHex(_)
ToHex(bytes) ==
    IF Len(bytes) = 0 THEN <<>>
    ELSE <<HexDigits[(Head(bytes) \div 16) + 1], HexDigits[(Head(bytes) % 16) + 1]>>
             \o ToHex(Tail(bytes))

\* buffer.slice(start, end) and string.slice(start, end), positions counted from 0
Slice(seq, start, end) ==
    LET to == IF end < Len(seq) THEN end ELSE Len(seq)
    IN  IF start >= to THEN <<>> ELSE SubSeq(seq, start + 1, to)

\* Buffer.compare(a, b): -1, 0 or 1 in the order of the bytes, then of the lengths
BufferCompare(a, b) ==
    LET common == IF Len(a) < Len(b) THEN Len(a) ELSE Len(b)
        differ == {k \in 1..common : a[k] # b[k]}
    IN  IF differ # {}
        THEN LET k == CHOOSE d \in differ : \A e \in differ : d <= e
             IN  IF a[k] < b[k] THEN -1 ELSE 1
        ELSE IF Len(a) < Len(b) THEN -1
        ELSE IF Len(a) > Len(b) THEN 1
        ELSE 0

\* what a function call ends with: a returned value or a thrown error
Returned(value) == [kind |-> "return", value |-> value]
Thrown(error) == [kind |-> "throw", error |-> error]
\* the TypeError of reading a property of null or of handing a non-buffer to
\* Buffer.compare
TypeError == ErrorObject(<<"TypeError">>)

\* instruction.data as a Buffer (TransactionInstruction, simulator.ts:373)
BufferData(bytes) == [kind |-> "Buffer", bytes |-> bytes]
\* instruction.data as the base-58 string of a CompiledInstruction (simulator.ts:229)
StringData(text) == [kind |-> "string", text |-> text]

\* the bytes or characters of instruction.data
ContentOf(data) == IF data.kind = "Buffer" THEN data.bytes ELSE data.text

\* const DISCRIMINATOR_SIZE = 8
DISCRIMINATOR_SIZE == 8

(***************************************************************************)
(* deriveInstructionDiscriminator (anchor-utils.ts:139-155).               *)
(***************************************************************************)
deriveInstructionDiscriminator(ixName) ==
    LET nameBytes == BufferFromUtf8(ixName)
    IN  [i \in 1..8 |-> IF i <= Len(nameBytes) THEN nameBytes[i] ELSE 0]

(***************************************************************************)
(* findInstructionByDiscriminator (anchor-utils.ts:119-132).  The IDL is   *)
(* null, an object without an instruction list, or an object with one.     *)
(***************************************************************************)
\* !idl.instructions
HasNoInstructions(idl) == "instructions" \notin DOMAIN idl

\* the position of the first instruction of the IDL whose derived discriminator
\* compares equal to the given one, or 0
FirstMatch(idl, discriminator) ==
    LET hits == {n \in 1..Len(idl.instructions) :
                    BufferCompare(discriminator,
                        deriveInstructionDiscriminator(idl.instructions[n].name)) = 0}
    IN  IF hits = {} THEN 0 ELSE CHOOSE n \in hits : \A h \in hits : n <= h

\* mutant: the discriminators are compared over the bytes the payload has
findInstructionByPrefix(idl, data) ==
    IF idl = Null THEN Thrown(TypeError)
    ELSE IF HasNoInstructions(idl) THEN Returned(Null)
    ELSE IF Len(idl.instructions) = 0 THEN Returned(Null)
    ELSE IF data.kind # "Buffer" THEN Thrown(TypeError)
    ELSE LET discriminator == Slice(data.bytes, 0, DISCRIMINATOR_SIZE)
             hits == {n \in 1..Len(idl.instructions) :
                        BufferCompare(discriminator,
                            Slice(deriveInstructionDiscriminator(idl.instructions[n].name),
                                  0, Len(discriminator))) = 0}
         IN  IF hits = {} THEN Returned(Null)
             ELSE Returned(idl.instructions[CHOOSE n \in hits : \A h \in hits : n <= h])

\* findInstructionByDiscriminator(idl, data.slice(0, DISCRIMINATOR_SIZE))
findInstructionByDiscriminator(idl, data) ==
    IF idl = Null THEN Thrown(TypeError)
    ELSE IF HasNoInstructions(idl) THEN Returned(Null)
    ELSE IF Len(idl.instructions) = 0 THEN Returned(Null)
    ELSE IF data.kind # "Buffer" THEN Thrown(TypeError)
    ELSE LET n == FirstMatch(idl, Slice(data.bytes, 0, DISCRIMINATOR_SIZE))
         IN  IF n = 0 THEN Returned(Null) ELSE Returned(idl.instructions[n])

\* the discriminators the loop of lines 124-129 derives: one per instruction of
\* the IDL up to the first match
DerivedBy(idl, data) ==
    IF idl = Null \/ HasNoInstructions(idl) THEN <<>>
    ELSE IF Len(idl.instructions) = 0 THEN <<>>
    ELSE LET n == IF data.kind = "Buffer"
                  THEN FirstMatch(idl, Slice(data.bytes, 0, DISCRIMINATOR_SIZE))
                  ELSE 1
             last == IF n = 0 THEN Len(idl.instructions) ELSE n
         IN  [k \in 1..last |-> deriveInstructionDiscriminator(idl.instructions[k].name)]

(***************************************************************************)
(* decodeAnchorArgs (anchor-utils.ts:163-175).                             *)
(***************************************************************************)
decodeAnchorArgs(data, ix) ==
    IF "args" \notin DOMAIN ix THEN EmptyObject
    ELSE IF Len(ix.args) = 0 THEN EmptyObject
    ELSE [rawData |-> ToHex(data)]

(***************************************************************************)
(* decodeAnchorInstruction (anchor-utils.ts:61-111).  The account list of  *)
(* lines 82-96 is computed and not returned; it is left out.               *)
(***************************************************************************)
\* lines 67-106: the body of the try block
DecodeBody(ixn, idl) ==
    LET found == findInstructionByDiscriminator(idl, ixn.data)
    IN  IF found.kind = "throw" THEN found
        ELSE IF found.value = Null THEN Returned(Null)
        ELSE LET matchingIx == found.value
                 argsData == Slice(ContentOf(ixn.data), DISCRIMINATOR_SIZE,
                                   Len(ContentOf(ixn.data)))
             IN  Returned([name |-> matchingIx.name,
                           ix |-> matchingIx,
                           args |-> decodeAnchorArgs(argsData, matchingIx)])

\* the try block, and the catch block that returns null (lines 107-110)
decodeAnchorInstruction(ixn, idl) ==
    LET outcome == DecodeBody(ixn, idl)
    IN  IF outcome.kind = "throw" THEN Returned(Null) ELSE outcome

(***************************************************************************)
(* The files under $HOME/.soltrace and the lookups of program names and    *)
(* account labels (the second part of anchor-utils.ts, which the simulator *)
(* imports as utils/lookup).  The text of a JSON file is held as its       *)
(* pieces: a bracket, a brace, a comma, a colon and a quote are pieces,    *)
(* and so are the text between two quotes, a number, and each of null,     *)
(* true and false.                                                         *)
(***************************************************************************)
\* a boolean of JavaScript
BooleanValue(flag) == [kind |-> "boolean", value |-> flag]

\* what JSON.parse throws for a text that is not JSON (the message of the
\* engine, shortened)
JsonSyntaxError == ErrorObject(<<"Unexpected token in JSON">>)

\* the numbers a JSON text may hold
JsonNumbers == 0..9

\* object[name] = value on a plain object: the property keeps its place when
\* the object has it
SetProperty(object, name, value) ==
    IF \E n \in 1..Len(object.properties) : object.properties[n].name = name
    THEN PlainObject([n \in 1..Len(object.properties) |->
                         IF object.properties[n].name = name THEN Property(name, value)
                         ELSE object.properties[n]])
    ELSE PlainObject(Append(object.properties, Property(name, value)))

\* no JSON value starts here
NoParse == [ok |-> FALSE]
\* the JSON value read, and the position of the piece after it
Parsed(value, next) == [ok |-> TRUE, value |-> value, next |-> next]

\* the texts of the numbers
JsonNumberTexts == {ToString(n) : n \in JsonNumbers}

RECURSIVE ParseValue(_, _)
RECURSIVE ParseElements(_, _, _)
RECURSIVE ParseMembers(_, _, _)

\* the array whose element before the piece at element.next was read: it ends
\* at a closing bracket and goes on after a comma
AfterElement(pieces, items, element) ==
    IF ~element.ok THEN NoParse
    ELSE IF element.next > Len(pieces) THEN NoParse
    ELSE IF pieces[element.next] = "]"
    THEN Parsed(ArrayValue(Append(items, element.value)), element.next + 1)
    ELSE IF pieces[element.next] = ","
    THEN ParseElements(pieces, element.next + 1, Append(items, element.value))
    ELSE NoParse

\* the elements of an array from the piece at on, up to the closing bracket
ParseElements(pieces, at, items) ==
    AfterElement(pieces, items, ParseValue(pieces, at))

\* the object whose member called name was read: it ends at a closing brace
\* and goes on after a comma; a name given twice keeps its last value
AfterMember(pieces, object, name, member) ==
    IF ~member.ok THEN NoParse
    ELSE IF member.next > Len(pieces) THEN NoParse
    ELSE IF pieces[member.next] = "}"
    THEN Parsed(SetProperty(object, name, member.value), member.next + 1)
    ELSE IF pieces[member.next] = ","
    THEN ParseMembers(pieces, member.next + 1, SetProperty(object, name, member.value))
    ELSE NoParse

\* the members of an object from the piece at on, up to the closing brace
ParseMembers(pieces, at, object) ==
    IF ~(/\ at + 3 <= Len(pieces)
         /\ pieces[at] = "\"" /\ pieces[at + 2] = "\"" /\ pieces[at + 3] = ":")
    THEN NoParse
    ELSE AfterMember(pieces, object, pieces[at + 1], ParseValue(pieces, at + 4))

\* the JSON value that starts at the piece at: a literal, a number, a string,
\* an array or an object
ParseValue(pieces, at) ==
    IF at > Len(pieces) THEN NoParse
    ELSE CASE pieces[at] = "null" -> Parsed(Null, at + 1)
           [] pieces[at] = "true" -> Parsed(BooleanValue(TRUE), at + 1)
           [] pieces[at] = "false" -> Parsed(BooleanValue(FALSE), at + 1)
           [] pieces[at] \in JsonNumberTexts ->
                 Parsed(NumberValue(CHOOSE n \in JsonNumbers : ToString(n) = pieces[at]),
                        at + 1)
           [] pieces[at] = "\"" ->
                 IF at + 2 <= Len(pieces) /\ pieces[at + 2] = "\""
                 THEN Parsed(StringValue(pieces[at + 1]), at + 3)
                 ELSE NoParse
           [] pieces[at] = "[" ->
                 IF at + 1 <= Len(pieces) /\ pieces[at + 1] = "]"
                 THEN Parsed(ArrayValue(<<>>), at + 2)
                 ELSE ParseElements(pieces, at + 1, <<>>)
           [] pieces[at] = "{" ->
                 IF at + 1 <= Len(pieces) /\ pieces[at + 1] = "}"
                 THEN Parsed(PlainObject(<<>>), at + 2)
                 ELSE ParseMembers(pieces, at + 1, PlainObject(<<>>))
           [] OTHER -> NoParse

\* the value a text holds when one JSON value takes all its pieces
WholeText(pieces, parsed) ==
    IF parsed.ok /\ parsed.next = Len(pieces) + 1 THEN parsed.value
    ELSE JsonSyntaxError

\* JSON.parse(text) on a text given as its pieces: the value, or the
\* SyntaxError for a text that is not one JSON value
JsonParse(pieces) == WholeText(pieces, ParseValue(pieces, 1))

\* value[name] for a value other than null and undefined, name being a key or
\* a path: the own property of an object, undefined for any other value
GetProperty(value, name) ==
    IF value.kind # "object" THEN Undefined
    ELSE LET at == {n \in 1..Len(value.properties) : value.properties[n].name = name}
         IN  IF at = {} THEN Undefined ELSE value.properties[CHOOSE n \in at : TRUE].value

\* the TypeError of null[name]
CannotReadProperty(name) ==
    ErrorObject(<<"Cannot read properties of null (reading '", name, "')">>)

\* a file: whether it exists, and its text
File(text) == [exists |-> TRUE, text |-> text]
NoFile == [exists |-> FALSE, text |-> <<>>]

\* an IDL file as JSON.parse reads it: an IDL with its instructions
AlphaIdl == [name |-> "alpha", version |-> "0.1.0", address |-> StringValue("progP"),
             instructions |-> <<"initialize", "transfer">>]
\* an IDL file without metadata.address
BetaIdl == [name |-> "beta", version |-> "0.2.0", address |-> Undefined,
            instructions |-> <<"initialize">>]
\* an IDL file that has no instruction list
GammaIdl == [name |-> "gamma", version |-> "0.3.0", address |-> StringValue("progQ")]

\* the files the commands read and write: what `tx --file` wrote (out), and
\* under $HOME/.soltrace the two mapping files and the cached IDL files; a
\* cached IDL file is held as JSON.parse reads it: an IDL, null, or the
\* SyntaxError of a file that is not JSON
Disk(programs, accounts, idl) ==
    [out |-> <<>>, programs |-> programs, accounts |-> accounts, idl |-> idl]

\* $HOME/.soltrace before anything was written under it
FreshDisk == Disk(NoFile, NoFile, <<>>)

\* mappings of a program and of two accounts, a cached IDL and a cached file
\* that is not JSON
MappedDisk ==
    Disk(File(JsonStringify(PlainObject(<<Property("progP", StringValue("Alpha"))>>))),
         File(JsonStringify(PlainObject(<<Property("payer", StringValue("Wallet")),
                                          Property("acctA", StringValue("Vault"))>>))),
         <<[name |-> <<"progP", ".json">>, idl |-> AlphaIdl],
           [name |-> <<"progQ", ".json">>, idl |-> JsonSyntaxError]>>)

\* a programs file that holds null, an accounts file that is not JSON, a
\* cached file that holds null and a cached IDL without an instruction list
NullDisk ==
    Disk(File(<<"null">>), File(<<"oops">>),
         <<[name |-> <<"progP", ".json">>, idl |-> Null],
           [name |-> <<"progQ", ".json">>, idl |-> GammaIdl]>>)

\* the states of $HOME/.soltrace a process may find: nothing yet; MappedDisk;
\* a programs file that is not JSON with an accounts file that holds null;
\* NullDisk
Disks ==
    {FreshDisk,
     MappedDisk,
     Disk(File(<<"oops">>), File(<<"null">>),
          <<[name |-> <<"progP", ".json">>, idl |-> JsonSyntaxError]>>),
     NullDisk}

\* KNOWN_PROGRAMS (lines 216-228): the names of the well-known programs
KNOWN_PROGRAMS ==
    LET known == <<<<"11111111111111111111111111111111", "System Program">>,
                   <<"TokenkegQfeZyiNwAJbNbGKPFXCWuBvf9Ss623VQ5DA", "Token Program">>,
                   <<"ATokenGPvbdGVxr1b2hvZbsiqW5xWH25efTNsLJA8knL",
                     "Associated Token Program">>,
                   <<"metaqbxxUerdq28cj1RbAWkYQm3ybzjb6a8bt518x1s",
                     "Metaplex Token Metadata">>,
                   <<"SysvarRent111111111111111111111111111111111", "Rent Sysvar">>,
                   <<"SysvarC1ock11111111111111111111111111111111", "Clock Sysvar">>,
                   <<"Stake11111111111111111111111111111111111111", "Stake Program">>,
                   <<"Vote111111111111111111111111111111111111111", "Vote Program">>,
                   <<"BPFLoaderUpgradeab1e11111111111111111111111", "BPF Loader">>,
                   <<"ComputeBudget111111111111111111111111111111",
                     "Compute Budget Program">>>>
    IN  [id \in {known[n][1] : n \in 1..Len(known)} |->
            known[CHOOSE n \in 1..Len(known) : known[n][1] = id][2]]

\* the Token program (line 283)
TokenProgramId == "TokenkegQfeZyiNwAJbNbGKPFXCWuBvf9Ss623VQ5DA"

\* new PublicKey(n) for a number n: the key whose 32 bytes are the big-endian
\* bytes of n, as its base58 text
NumberKeys ==
    <<"11111111111111111111111111111111", "11111111111111111111111111111112",
      "11111111111111111111111111111113", "11111111111111111111111111111114",
      "11111111111111111111111111111115", "11111111111111111111111111111116",
      "11111111111111111111111111111117", "11111111111111111111111111111118",
      "11111111111111111111111111111119", "1111111111111111111111111111111A">>
NumberKey(n) == NumberKeys[n + 1]

\* the characters of the base58 text of a key
KeyText(key) ==
    CASE key = "acctA" -> <<"a","c","c","t","A">>
      [] key = "payer" -> <<"p","a","y","e","r">>
      [] key = "progP" -> <<"p","r","o","g","P">>
      [] key = "progQ" -> <<"p","r","o","g","Q">>
      [] key = "signerA" -> <<"s","i","g","n","e","r","A">>
      [] OTHER ->
            LET last == <<"1","2","3","4","5","6","7","8","9","A">>
            IN  [n \in 1..31 |-> "1"]
                    \o <<last[CHOOSE k \in 1..Len(NumberKeys) : NumberKeys[k] = key]>>

\* line 260: the abbreviated format of an id, its first four characters, three
\* dots and its last four characters
Abbreviated(idStr) ==
    StringValue(Slice(KeyText(idStr), 0, 4) \o <<".", ".", ".">>
                    \o SliceLast(KeyText(idStr), 4))

\* the return of the try block of a loader, and {} after its catch block
OrEmptyObject(parsed) ==
    IF parsed = JsonSyntaxError THEN PlainObject(<<>>) ELSE parsed

\* loadUserProgramMappings and loadUserAccountMappings (lines 306-334): what
\* JSON.parse makes of the file, or {} when the file is missing or is not JSON
loadUserMappings(file) ==
    IF file.exists THEN OrEmptyObject(JsonParse(file.text)) ELSE PlainObject(<<>>)

\* lines 313-315 and 330-332: the warning for a mapping file that is not JSON
LoadWarnings(file, said) ==
    IF file.exists /\ JsonParse(file.text) = JsonSyntaxError
    THEN <<<<said, JsonSyntaxError>>>>
    ELSE <<>>

\* how a lookup ends: what it returned or threw, programNameCache after it,
\* and what it wrote on the standard error
Lookup(outcome, names, warnings) ==
    [outcome |-> outcome, names |-> names, warnings |-> warnings]

\* programNameCache.set(idStr, name)
CacheSet(names, idStr, name) ==
    [id \in (DOMAIN names) \cup {idStr} |-> IF id = idStr THEN name ELSE names[id]]

\* lines 252-262: the name the mappings give an id, or the abbreviated id;
\* either is cached.  Reading the id of mappings that are null throws
UserDefinedName(names, idStr, mappings, warnings) ==
    IF mappings = Null
    THEN Lookup(Thrown(CannotReadProperty(idStr)), names, warnings)
    ELSE IF Truthy(GetProperty(mappings, idStr))
    THEN Lookup(Returned(GetProperty(mappings, idStr)),
                CacheSet(names, idStr, GetProperty(mappings, idStr)), warnings)
    ELSE Lookup(Returned(Abbreviated(idStr)),
                CacheSet(names, idStr, Abbreviated(idStr)), warnings)

\* getProgramName (lines 238-263): the cached name, the known name, the name
\* programs.json gives, or the abbreviated id; names is programNameCache, and
\* reading the id of a programs.json that holds null throws
getProgramName(names, disk, idStr) ==
    IF idStr \in DOMAIN names THEN Lookup(Returned(names[idStr]), names, <<>>)
    ELSE IF idStr \in DOMAIN KNOWN_PROGRAMS
    THEN Lookup(Returned(StringValue(KNOWN_PROGRAMS[idStr])),
                CacheSet(names, idStr, StringValue(KNOWN_PROGRAMS[idStr])), <<>>)
    ELSE UserDefinedName(names, idStr, loadUserMappings(disk.programs),
                         LoadWarnings(disk.programs,
                                      "Error loading user program mappings:"))

\* lines 290-299: the label the mappings give a key, or undefined.  Reading
\* the key of mappings that are null throws
UserDefinedLabel(names, pubkeyStr, mappings, warnings) ==
    IF mappings = Null
    THEN Lookup(Thrown(CannotReadProperty(pubkeyStr)), names, warnings)
    ELSE IF Truthy(GetProperty(mappings, pubkeyStr))
    THEN Lookup(Returned(GetProperty(mappings, pubkeyStr)), names, warnings)
    ELSE Lookup(Returned(Undefined), names, warnings)

\* getAccountLabel (lines 271-300): the name of a program, 'Token Account', the
\* label accounts.json gives, or undefined; reading the key of an accounts.json
\* that holds null throws
getAccountLabel(names, disk, pubkeyStr, accountInfo) ==
    IF accountInfo.executable THEN getProgramName(names, disk, pubkeyStr)
    ELSE IF accountInfo.owner = TokenProgramId
    THEN Lookup(Returned(StringValue("Token Account")), names, <<>>)
    ELSE UserDefinedLabel(names, pubkeyStr, loadUserMappings(disk.accounts),
                          LoadWarnings(disk.accounts,
                                       "Error loading user account mappings:"))

RECURSIVE ProgramNames(_, _, _, _)

\* the names of the program ids from position n on, the name of the id before
\* them being looked up: nothing more is looked up once a lookup has thrown
NamesAfter(disk, ids, n, first) ==
    IF first.outcome.kind = "throw"
    THEN [found |-> <<>>, thrown |-> first.outcome.error,
          names |-> first.names, warnings |-> first.warnings]
    ELSE LET rest == ProgramNames(first.names, disk, ids, n)
         IN  [found |-> <<first.outcome.value>> \o rest.found,
              thrown |-> rest.thrown,
              names |-> rest.names,
              warnings |-> first.warnings \o rest.warnings]

\* getProgramName for the program ids from position n on, in the order of the
\* instructions, up to the first that throws: the names found, the error
\* thrown if any, the cache and the warnings
ProgramNames(names, disk, ids, n) ==
    IF n > Len(ids)
    THEN [found |-> <<>>, thrown |-> Undefined, names |-> names, warnings |-> <<>>]
    ELSE NamesAfter(disk, ids, n + 1, getProgramName(names, disk, ids[n]))

(***************************************************************************)
(* One invocation of debugSignature.  Its position is the await it is      *)
(* suspended at; pendingUrl is the endpoint the awaited call was issued    *)
(* on.  probes, answers and calls record the calls it has issued, absent   *)
(* the account keys getAccountInfo resolved to null for.  An invocation of  *)
(* debugLocalTransaction keeps in given the transaction as the caller      *)
(* handed it over; rebuilt is the Transaction simulateFromSignature built.  *)
(***************************************************************************)
NoResult == [kind |-> "none"]

\* the blockhash getLatestBlockhash resolves to
LatestBlockhash == "latestHash"

\* message.isAccountSigner(index) (declared at simulator.ts:30)
isAccountSigner(message, index) == index < message.header.numRequiredSignatures

\* message.isAccountWritable(index) (declared at simulator.ts:31)
isAccountWritable(message, index) ==
    LET numSigned == message.header.numRequiredSignatures
        numKeys == Len(message.accountKeys)
    IN  IF index >= numSigned
        THEN index - numSigned
                 < (numKeys - numSigned) - message.header.numReadonlyUnsignedAccounts
        ELSE index < numSigned - message.header.numReadonlySignedAccounts

\* lines 479-487: the TransactionInstruction built from a compiled instruction;
\* the flags of the key at position idx of the instruction are asked of the
\* message for idx, and Buffer.from(ix.data) takes the characters of the string
RebuiltInstruction(message, ix) ==
    [programId |-> At(message.accountKeys, ix.programIdIndex),
     keys |-> [n \in 1..Len(ix.accounts) |->
                  [pubkey |-> At(message.accountKeys, ix.accounts[n]),
                   isSigner |-> isAccountSigner(message, n - 1),
                   isWritable |-> isAccountWritable(message, n - 1)]],
     data |-> BufferData(BufferFromUtf8(ix.data.text))]

\* lines 467-497: the Transaction handed to connection.simulateTransaction; the
\* versioned branch sets the fee payer and adds no instruction
RebuildTransaction(message, blockhash) ==
    IF "accountKeys" \in DOMAIN message
    THEN [kind |-> "Transaction",
          recentBlockhash |-> blockhash,
          feePayer |-> At(message.accountKeys, 0),
          instructions |-> [n \in 1..Len(message.instructions) |->
                               RebuiltInstruction(message, message.instructions[n])]]
    ELSE [kind |-> "Transaction",
          recentBlockhash |-> blockhash,
          feePayer |-> At(message.staticAccountKeys, 0),
          instructions |-> <<>>]

IdleInvocation ==
    [pc |-> "idle", signature |-> "none", skipNetworkFallback |-> FALSE,
     stage |-> 0, pendingUrl |-> "none", transaction |-> NoTransaction,
     keyIdx |-> 0, pre |-> EmptyObject, absent |-> {},
     simulation |-> Undefined, rejection |-> Undefined,
     probes |-> <<>>, answers |-> <<>>, calls |-> <<>>,
     given |-> Undefined, replaceRecentBlockhash |-> FALSE,
     rebuilt |-> Undefined, label |-> Undefined,
     stdout |-> <<>>, stderr |-> <<>>,
     result |-> NoResult, threw |-> FALSE]

\* console.log(line): the invocation writes a line to the standard output
ConsoleLog(slot, line) == [slot EXCEPT !.stdout = Append(@, line)]

\* console.error(...) and console.warn(...): a line on the standard error
ConsoleError(slot, line) == [slot EXCEPT !.stderr = Append(@, line)]

\* the process the simulator runs in receives what the invocation wrote to the
\* console in a step
Console(process, before, after) ==
    IF process.mode \in {"none", "library"} THEN process
    ELSE [process EXCEPT
             !.stdout = @ \o SubSeq(after.stdout, Len(before.stdout) + 1, Len(after.stdout)),
             !.stderr = @ \o SubSeq(after.stderr, Len(before.stderr) + 1, Len(after.stderr))]

\* lines 104, 128, 151: what is printed on entering each stage of the fallback
TryingLines ==
    <<<<"Transaction not found on current network. Trying mainnet...">>,
      <<"Not found on mainnet. Trying devnet...">>,
      <<"Not found on devnet. Trying testnet...">>>>

\* lines 117, 139, 162: what is printed when a stage finds the transaction
FoundLines ==
    <<<<"Transaction found on mainnet. Switching network...">>,
      <<"Transaction found on devnet. Switching network...">>,
      <<"Transaction found on testnet. Switching network...">>>>

\* mutant: there is no catch block and the error leaves debugSignature
CatchRethrows(slot, error) ==
    [slot EXCEPT !.pc = "done", !.threw = TRUE]

\* the catch block (lines 305-313) prints the error and returns the failure
Catch(slot, error) ==
    [ConsoleError(slot, <<"Error debugging transaction:", error>>)
        EXCEPT !.pc = "done", !.result = FailureTrace(slot.signature, error)]

\* an error leaves simulateFromSignature: its promise is rejected, and
\* debugSignature, which awaits it at line 209, resumes in a later turn
Reject(slot, error) == [slot EXCEPT !.pc = "replayed", !.rejection = error]

\* line 450: simulateFromSignature fetches the transaction again on the connection
StartSimulate(slot, conn) ==
    [slot EXCEPT !.pc = "refetch", !.pendingUrl = conn,
                 !.calls = Append(@, <<"getTransaction", conn>>)]

\* line 189: getAccountInfo of the account key at position k, on the connection
FetchAccount(slot, k, conn) ==
    [slot EXCEPT !.pc = "accounts", !.keyIdx = k, !.pendingUrl = conn,
                 !.calls = Append(@, <<"getAccountInfo", conn>>)]

\* lines 178-209 up to the first await: the loop over accountKeys, then the replay
StartAccounts(slot, conn) ==
    IF Len(AccountKeysOf(MessageOf(slot.transaction.signature))) = 0
    THEN StartSimulate(slot, conn)
    ELSE FetchAccount(slot, 1, conn)

\* lines 187-209 after the body of the loop: the next key is fetched, or
\* simulateFromSignature is entered
NextAccount(slot, conn) ==
    IF slot.keyIdx < Len(AccountKeysOf(MessageOf(slot.transaction.signature)))
    THEN FetchAccount(slot, slot.keyIdx + 1, conn)
    ELSE StartSimulate(slot, conn)

\* the first stage from stage k on whose endpoint is not this.rpcUrl
\* (lines 108, 130, 153), or 0 when there is none
NextStage(k, url) ==
    LET open == {j \in k..Len(FallbackUrls) : FallbackUrls[j] # url}
    IN  IF open = {} THEN 0 ELSE CHOOSE j \in open : \A h \in open : j <= h

\* mutant: the search gives up after the first fallback stage
ContinueSearchOneStage(slot, k, url) ==
    LET j == IF k > 1 THEN 0 ELSE NextStage(k, url)
        said == [slot EXCEPT !.stdout = @ \o
                    SubSeq(TryingLines, k, IF j = 0 THEN Len(FallbackUrls) ELSE j)]
    IN  IF j = 0
        THEN Catch(said, NotFoundOnAnyNetwork(slot.signature))
        ELSE [said EXCEPT !.pc = "fallback", !.stage = j,
                          !.pendingUrl = FallbackUrls[j],
                          !.probes = Append(@, FallbackUrls[j])]

\* lines 104-175 with no transaction yet: the stages from k on are entered, each
\* printing its line, up to the first whose endpoint is not this.rpcUrl, which
\* is probed; with none left 'not found on any network' is thrown
ContinueSearch(slot, k, url) ==
    LET j == NextStage(k, url)
        said == [slot EXCEPT !.stdout = @ \o
                    SubSeq(TryingLines, k, IF j = 0 THEN Len(FallbackUrls) ELSE j)]
    IN  IF j = 0
        THEN Catch(said, NotFoundOnAnyNetwork(slot.signature))
        ELSE [said EXCEPT !.pc = "fallback", !.stage = j,
                          !.pendingUrl = FallbackUrls[j],
                          !.probes = Append(@, FallbackUrls[j])]

\* line 198, 347: getAccountLabel has run and its promise is awaited; what it
\* wrote on the standard error is there already
AwaitLabel(slot, looked, pc) ==
    [slot EXCEPT !.pc = pc, !.label = looked.outcome,
                 !.stderr = @ \o looked.warnings]

\* lines 191-203, 340-352: the await of getAccountLabel ends: the state of the
\* account is stored with its label, or the catch of the loop prints the error
\* and the account is left out
Labelled(slot, key) ==
    IF slot.label.kind = "throw"
    THEN [ConsoleError(slot, <<"Failed to fetch account", key, slot.label.error>>)
             EXCEPT !.label = Undefined]
    ELSE [slot EXCEPT
             !.label = Undefined,
             !.pre = [k \in (DOMAIN @) \cup {key} |->
                         IF k = key
                         THEN [pubkey |-> key,
                               account |-> AccountInfoOf(key),
                               programOwner |-> AccountInfoOf(key).owner,
                               label |-> slot.label.value]
                         ELSE @[k]]]

\* the process after a lookup: programNameCache is a variable of the module
\* utils/lookup, which lives as long as the process
Cached(process, names) == [process EXCEPT !.names = names]

(***************************************************************************)
(* The actions: debugSignature is entered, and each await settles: an RPC   *)
(* call, getAccountLabel, simulateFromSignature.  An action runs the code  *)
(* from the settled await to the next one; a call is issued on             *)
(* this.connection as it is in that turn.                                  *)
(***************************************************************************)
Invocations == 1..MaxInvocations

\* what getTransaction settles with: the record, null, or a rejection
ProbeAnswers == {"found", "null", "throw"}
\* what getAccountInfo settles with
AccountAnswers == {"info", "null", "throw"}

\* line 97: debugSignature(signature, options) issues getTransaction on this.connection
Begin(i, signature, skip) ==
    /\ inv[i].pc = "idle"
    /\ inv' = [inv EXCEPT ![i] =
                  [IdleInvocation EXCEPT !.pc = "primary",
                                         !.signature = signature,
                                         !.skipNetworkFallback = skip,
                                         !.pendingUrl = connection,
                                         !.probes = <<connection>>]]
    /\ UNCHANGED <<ctorUrl, rpcUrl, connection, localTx, cli, logVars, decVars>>

\* lines 97-175: the probe of the current network settles
AfterPrimary(i, answer) ==
    /\ inv[i].pc = "primary"
    /\ LET slot == [inv[i] EXCEPT !.answers = Append(@, answer)]
       IN  inv' = [inv EXCEPT ![i] =
              CASE answer = "throw" -> Catch(slot, TransportFailure)
                [] answer = "found" ->
                      StartAccounts(
                          [slot EXCEPT !.transaction =
                              TransactionRecord(slot.signature, slot.pendingUrl)],
                          connection)
                [] answer = "null" ->
                      IF slot.skipNetworkFallback
                      THEN Catch(slot, NotFoundOnAnyNetwork(slot.signature))
                      ELSE ContinueSearch(slot, 1, rpcUrl)]
    /\ cli' = Console(cli, inv[i], inv'[i])
    /\ UNCHANGED <<ctorUrl, rpcUrl, connection, localTx, logVars, decVars>>

\* mutant: a rejected probe of a fallback network is not caught by the inner
\* try block and ends the search
AfterFallbackStopsOnThrow(i, answer) ==
    /\ inv[i].pc = "fallback"
    /\ LET slot == [inv[i] EXCEPT !.answers = Append(@, answer)]
           url == FallbackUrls[slot.stage]
       IN  IF answer = "found"
           THEN /\ connection' = url
                /\ rpcUrl' = url
                /\ inv' = [inv EXCEPT ![i] =
                      StartAccounts(
                          [ConsoleLog(slot, FoundLines[slot.stage])
                              EXCEPT !.transaction =
                                  TransactionRecord(slot.signature, slot.pendingUrl)],
                          url)]
           ELSE /\ inv' = [inv EXCEPT ![i] =
                      IF answer = "throw" THEN Catch(slot, TransportFailure)
                      ELSE ContinueSearch(slot, slot.stage + 1, rpcUrl)]
                /\ UNCHANGED <<rpcUrl, connection>>
    /\ cli' = Console(cli, inv[i], inv'[i])
    /\ UNCHANGED <<ctorUrl, localTx, logVars, decVars>>

\* lines 111-123, 133-146, 156-169: the probe of a fallback network settles
AfterFallback(i, answer) ==
    /\ inv[i].pc = "fallback"
    /\ LET slot == [inv[i] EXCEPT !.answers = Append(@, answer)]
           url == FallbackUrls[slot.stage]
       IN  IF answer = "found"
           THEN /\ connection' = url
                /\ rpcUrl' = url
                /\ inv' = [inv EXCEPT ![i] =
                      StartAccounts(
                          [ConsoleLog(slot, FoundLines[slot.stage])
                              EXCEPT !.transaction =
                                  TransactionRecord(slot.signature, slot.pendingUrl)],
                          url)]
           ELSE /\ inv' = [inv EXCEPT ![i] = ContinueSearch(slot, slot.stage + 1, rpcUrl)]
                /\ UNCHANGED <<rpcUrl, connection>>
    /\ cli' = Console(cli, inv[i], inv'[i])
    /\ UNCHANGED <<ctorUrl, localTx, logVars, decVars>>

\* lines 189-203: getAccountInfo of one account key settles.  For an account
\* that exists getAccountLabel is called, which runs to its end, and its
\* promise is awaited (line 198); for null, and for a rejection, which is
\* caught and printed, the loop goes on in the same turn
AfterAccount(i, answer) ==
    /\ inv[i].pc = "accounts"
    /\ LET key == AccountKeysOf(MessageOf(inv[i].transaction.signature))[inv[i].keyIdx]
           looked == getAccountLabel(cli.names, cli.disk, key, AccountInfoOf(key))
       IN  /\ inv' = [inv EXCEPT ![i] =
                  CASE answer = "info" -> AwaitLabel(inv[i], looked, "label")
                    [] answer = "null" ->
                          NextAccount([inv[i] EXCEPT !.absent = @ \cup {key}], connection)
                    [] answer = "throw" ->
                          NextAccount(
                              ConsoleError(inv[i], <<"Failed to fetch account", key,
                                                     TransportFailure>>),
                              connection)]
           /\ cli' = Cached(Console(cli, inv[i], inv'[i]),
                            IF answer = "info" THEN looked.names ELSE cli.names)
    /\ UNCHANGED <<ctorUrl, rpcUrl, connection, localTx, logVars, decVars>>

\* lines 191-209: the promise of getAccountLabel has settled.  With a label
\* the state of the account is stored; a rejection is caught by the catch of
\* the loop (lines 201-203), which prints it, and the account is left out.  The
\* next call is issued on this.connection as it is now
AfterLabel(i) ==
    /\ inv[i].pc = "label"
    /\ LET key == AccountKeysOf(MessageOf(inv[i].transaction.signature))[inv[i].keyIdx]
       IN  inv' = [inv EXCEPT ![i] = NextAccount(Labelled(inv[i], key), connection)]
    /\ cli' = Console(cli, inv[i], inv'[i])
    /\ UNCHANGED <<ctorUrl, rpcUrl, connection, localTx, logVars, decVars>>

\* lines 450-464: the second getTransaction settles; null throws 'not found'
AfterRefetch(i, answer) ==
    /\ inv[i].pc = "refetch"
    /\ inv' = [inv EXCEPT ![i] =
          CASE answer = "throw" -> Reject(inv[i], TransportFailure)
            [] answer = "null" -> Reject(inv[i], NotFoundOnRefetch(inv[i].signature))
            [] answer = "found" ->
                  [inv[i] EXCEPT !.pc = "blockhash", !.pendingUrl = connection,
                                 !.calls = Append(@, <<"getLatestBlockhash", connection>>)]]
    /\ UNCHANGED <<ctorUrl, rpcUrl, connection, localTx, cli, logVars, decVars>>

\* lines 464-500: getLatestBlockhash settles; the transaction is rebuilt and
\* handed to simulateTransaction
AfterBlockhash(i, ok) ==
    /\ inv[i].pc = "blockhash"
    /\ inv' = [inv EXCEPT ![i] =
          IF ok
          THEN [inv[i] EXCEPT !.pc = "dryrun", !.pendingUrl = connection,
                              !.rebuilt = RebuildTransaction(
                                              MessageOf(inv[i].signature), LatestBlockhash),
                              !.calls = Append(@, <<"simulateTransaction", connection>>)]
          ELSE Reject(inv[i], TransportFailure)]
    /\ UNCHANGED <<ctorUrl, rpcUrl, connection, localTx, cli, logVars, decVars>>

\* line 500: the dry-run settles with a value and simulateFromSignature returns
\* it; debugSignature, which awaits that at line 209, resumes in a later turn
AfterDryRun(i, value) ==
    /\ inv[i].pc = "dryrun"
    /\ inv' = [inv EXCEPT ![i] = [inv[i] EXCEPT !.pc = "replayed", !.simulation = value]]
    /\ UNCHANGED <<ctorUrl, rpcUrl, connection, localTx, cli, logVars, decVars>>

\* mutant: a rejected dry-run is called again
DryRunFailsRetries(i) ==
    /\ inv[i].pc = "dryrun"
    /\ inv' = [inv EXCEPT ![i] =
          [inv[i] EXCEPT !.calls = Append(@, <<"simulateTransaction", connection>>)]]
    /\ UNCHANGED <<ctorUrl, rpcUrl, connection, localTx, cli, logVars, decVars>>

\* line 500: simulateTransaction rejects, and so does simulateFromSignature
DryRunFails(i) ==
    /\ inv[i].pc = "dryrun"
    /\ inv' = [inv EXCEPT ![i] = Reject(inv[i], TransportFailure)]
    /\ UNCHANGED <<ctorUrl, rpcUrl, connection, localTx, cli, logVars, decVars>>

\* lines 209-313: debugSignature resumes with the outcome of
\* simulateFromSignature.  A rejection goes to the catch block.  With a value
\* the trace is assembled, with the network name of this.rpcUrl as it is now:
\* getProgramName is called for each instruction of a legacy message (line
\* 231), and when it throws the catch block returns the failure instead of
\* the trace
AfterSimulateFromSignature(i) ==
    /\ inv[i].pc = "replayed"
    /\ LET looked == ProgramNames(cli.names, cli.disk,
                                  ProgramIdsOf(MessageOf(inv[i].transaction.signature)), 1)
           warned == [inv[i] EXCEPT !.stderr = @ \o looked.warnings]
       IN  IF inv[i].rejection # Undefined
           THEN /\ inv' = [inv EXCEPT ![i] = Catch(inv[i], inv[i].rejection)]
                /\ cli' = Console(cli, inv[i], inv'[i])
           ELSE /\ inv' = [inv EXCEPT ![i] =
                      IF looked.thrown # Undefined
                      THEN Catch(warned, looked.thrown)
                      ELSE [warned EXCEPT
                               !.pc = "done",
                               !.result = AssembleTrace(inv[i].signature,
                                              inv[i].transaction, inv[i].pre,
                                              inv[i].simulation, rpcUrl, looked.found)]]
                /\ cli' = Cached(Console(cli, inv[i], inv'[i]), looked.names)
    /\ UNCHANGED <<ctorUrl, rpcUrl, connection, localTx, logVars, decVars>>

\* the caller has the DebugTransaction; the simulator object lives on
Return(i) ==
    /\ inv[i].pc = "done"
    /\ inv' = [inv EXCEPT ![i] = IdleInvocation]
    /\ UNCHANGED <<ctorUrl, rpcUrl, connection, localTx, cli, logVars, decVars>>

\* no command of the CLI is running
NoProcess == [mode |-> "none"]

\* the process of a program that uses the simulator as a library, with the
\* files it finds under $HOME/.soltrace and an empty programNameCache
Library(disk) == [mode |-> "library", disk |-> disk, names |-> EmptyObject]

\* a simulator no call is made on
IdleSimulator ==
    /\ ctorUrl = DevnetUrl
    /\ rpcUrl = ctorUrl
    /\ connection = ctorUrl
    /\ inv = [i \in Invocations |-> IdleInvocation]
    /\ localTx = Undefined
    /\ cli = NoProcess

\* the endpoints and the disks a library process starts a simulator with: every
\* endpoint on a fresh disk, and every disk on the devnet endpoint (no lookup
\* under $HOME/.soltrace depends on the endpoint)
LibraryStarts ==
    {<<url, FreshDisk>> : url \in RpcUrls}
        \cup {<<DevnetUrl, disk>> : disk \in Disks}

\* constructor (lines 79-83)
InitSimulator ==
    /\ \E start \in LibraryStarts :
           /\ ctorUrl = start[1]
           /\ cli = Library(start[2])
    /\ rpcUrl = ctorUrl
    /\ connection = ctorUrl
    /\ inv = [i \in Invocations |-> IdleInvocation]
    /\ localTx = Undefined

\* no instruction is being decoded
NoDecoding ==
    /\ anchorIdl = Undefined
    /\ givenIx = Undefined
    /\ decoded = NoResult
    /\ derived = <<>>

\* a settled await of invocation i, the endpoints answering from the given sets
Settle(i, probeAnswers, accountAnswers, values) ==
    \/ \E answer \in probeAnswers : AfterPrimary(i, answer)
    \/ \E answer \in probeAnswers : AfterFallback(i, answer)
    \/ \E answer \in accountAnswers : AfterAccount(i, answer)
    \/ AfterLabel(i)
    \/ \E answer \in probeAnswers : AfterRefetch(i, answer)
    \/ \E ok \in BOOLEAN : AfterBlockhash(i, ok)
    \/ \E value \in values : AfterDryRun(i, value)
    \/ DryRunFails(i)
    \/ AfterSimulateFromSignature(i)

\* the caller awaits each debugSignature before the next one
BeginAwaited(i, signature, skip) ==
    /\ \A j \in Invocations : inv[j].pc = "idle"
    /\ Begin(i, signature, skip)

Init ==
    /\ InitSimulator
    /\ logs = <<>>
    /\ phase = "idle"
    /\ grouped = EmptyObject
    /\ successful = "unset"
    /\ NoDecoding

Next ==
    \/ \E i \in Invocations, signature \in Signatures, skip \in BOOLEAN :
           BeginAwaited(i, signature, skip)
    \/ \E i \in Invocations : Settle(i, ProbeAnswers, AccountAnswers, SimulationValues)
    \/ \E i \in Invocations : Return(i)

Spec == Init /\ [][Next]_vars

(***************************************************************************)
(* debugLocalTransaction (simulator.ts:322-438) and simulateTransaction    *)
(* (simulator.ts:509-532).  The caller hands over a Transaction or a       *)
(* VersionedTransaction object; the simulator works on that object.        *)
(***************************************************************************)
\* the transaction parameter (lines 322-325): a legacy Transaction of two
\* instructions that a caller of the library built and gave a blockhash
LocalLegacyTx ==
    [kind |-> "Transaction",
     feePayer |-> "payer",
     recentBlockhash |-> "callerHash",
     instructions |->
        <<[programId |-> "progP",
           keys |-> <<[pubkey |-> "payer", isSigner |-> TRUE, isWritable |-> TRUE]>>,
           data |-> BufferData(<<1>>)],
          [programId |-> "progQ",
           keys |-> <<[pubkey |-> "payer", isSigner |-> TRUE, isWritable |-> TRUE]>>,
           data |-> BufferData(<<2>>)]>>]

\* a VersionedTransaction the caller built on a MessageV0 (version 0)
LocalVersionedTx ==
    [kind |-> "VersionedTransaction",
     message |-> V0Message,
     version |-> "0",
     recentBlockhash |-> "callerHash"]

\* a VersionedTransaction the caller built on a legacy Message (version
\* 'legacy'), read through staticAccountKeys and compiledInstructions
LocalVersionedLegacyTx ==
    [kind |-> "VersionedTransaction",
     message |-> V0Message,
     version |-> "legacy",
     recentBlockhash |-> "callerHash"]

LocalTransactions == {LocalLegacyTx, LocalVersionedTx, LocalVersionedLegacyTx}

\* transaction instanceof Transaction
IsLegacyTx(tx) == tx.kind = "Transaction"

\* the order of the base58 texts of the keys
Base58Order == NumberKeys \o <<"acctA", "payer", "progP", "progQ", "signerA">>

\* transaction.compileMessage() (line 329) of @solana/web3.js: the account
\* metas of the instructions followed by the program ids, one entry per key
\* with its flags merged; the fee payer comes first, then signers before the
\* others, writable before read-only, and the base58 text decides the rest
compileMessage(tx) ==
    LET metas(n) == tx.instructions[n].keys
        listed == UNION {{metas(n)[k] : k \in 1..Len(metas(n))} :
                            n \in 1..Len(tx.instructions)}
        programs == {tx.instructions[n].programId : n \in 1..Len(tx.instructions)}
        keys == ({m.pubkey : m \in listed} \cup programs) \ {tx.feePayer}
        isSigner(key) == \E m \in listed : m.pubkey = key /\ m.isSigner
        isWritable(key) == \E m \in listed : m.pubkey = key /\ m.isWritable
        ofClass(signer, writable) ==
            SelectSeq(Base58Order, LAMBDA key : /\ key \in keys
                                                /\ isSigner(key) = signer
                                                /\ isWritable(key) = writable)
    IN  <<tx.feePayer>> \o ofClass(TRUE, TRUE) \o ofClass(TRUE, FALSE)
            \o ofClass(FALSE, TRUE) \o ofClass(FALSE, FALSE)

\* lines 328-332: the static account keys of the message
LocalAccountKeys(tx) ==
    IF IsLegacyTx(tx) THEN compileMessage(tx) ELSE tx.message.staticAccountKeys

\* lines 370-385: the instructions the trace is built from
LocalInstructions(tx) ==
    IF IsLegacyTx(tx) THEN tx.instructions
    ELSE [n \in 1..Len(tx.message.compiledInstructions) |->
             [programIdIndex |-> tx.message.compiledInstructions[n].programIdIndex,
              accounts |-> tx.message.compiledInstructions[n].accountKeyIndexes,
              data |-> tx.message.compiledInstructions[n].data]]

\* lines 387-405: the DebugInstruction of the instruction at index (from 0)
LocalDebugInstructionOf(ixn, index, accountKeys, logsByInstruction, programName) ==
    [programId |-> IF "programId" \in DOMAIN ixn THEN ixn.programId
                   ELSE At(accountKeys, ixn.programIdIndex),
     programName |-> programName,
     instructionIndex |-> index,
     logs |-> LogsOfIndex(logsByInstruction, index),
     accountDiffs |-> <<>>]

\* lines 388-396: the program ids getProgramName is called with, in the order
\* of the instructions
LocalProgramIds(tx) ==
    [n \in 1..Len(LocalInstructions(tx)) |->
        IF "programId" \in DOMAIN LocalInstructions(tx)[n]
        THEN LocalInstructions(tx)[n].programId
        ELSE At(LocalAccountKeys(tx), LocalInstructions(tx)[n].programIdIndex)]

\* lines 358-429: the DebugTransaction of a dry-run that completed, every
\* getProgramName having returned
AssembleLocalTrace(tx, value, programNames) ==
    LET logsByInstruction == parseTransactionLogs(LogsOrEmpty(value))
        instructions == LocalInstructions(tx)
    IN  [success |-> (value.err = Null),
         error |-> IF value.err # Null THEN formatError(value.err) ELSE Undefined,
         instructions |->
            [n \in 1..Len(instructions) |->
                LocalDebugInstructionOf(instructions[n], n - 1, LocalAccountKeys(tx),
                                        logsByInstruction, programNames[n])]]

\* lines 430-437: the DebugTransaction the catch block returns
LocalFailureTrace(error) ==
    [success |-> FALSE, error |-> formatError(error), instructions |-> <<>>]

\* the catch block (lines 430-437) prints the error and returns the failure
LocalCatch(slot, error) ==
    [ConsoleError(slot, <<"Error debugging local transaction:", error>>)
        EXCEPT !.pc = "done", !.result = LocalFailureTrace(error)]

\* an error leaves simulateTransaction: its promise is rejected, and
\* debugLocalTransaction, which awaits it at line 356, resumes in a later turn
LocalReject(slot, error) == [slot EXCEPT !.pc = "localReplayed", !.rejection = error]

\* line 338: getAccountInfo of the account key at position k, on the connection
FetchLocalAccount(slot, k, conn) ==
    [slot EXCEPT !.pc = "localAccounts", !.keyIdx = k, !.pendingUrl = conn,
                 !.calls = Append(@, <<"getAccountInfo", conn>>)]

\* what compileMessage of @solana/web3.js throws for a Transaction that has no
\* recentBlockhash
BlockhashRequired == ErrorObject(<<"Transaction recentBlockhash required">>)

\* lines 326-338: the message is compiled and the first account fetched.  The
\* library decides whether compileMessage takes a Transaction without
\* recentBlockhash (compiles) or throws, which the catch block handles.
EnterLocal(slot, tx, conn, compiles) ==
    IF IsLegacyTx(tx) /\ tx.recentBlockhash = "unset" /\ ~compiles
    THEN LocalCatch(slot, BlockhashRequired)
    ELSE FetchLocalAccount(slot, 1, conn)

\* what Transaction.from of @solana/web3.js throws for the bytes of a
\* transaction whose message is versioned
VersionedMessageError ==
    ErrorObject(<<"Versioned messages must be deserialized with VersionedMessage.deserialize()">>)

\* lines 526, 530: connection.simulateTransaction is called with the
\* Transaction, or with Transaction.from(transaction.serialize()) for a
\* VersionedTransaction; Transaction.from reads a legacy message and throws on
\* a MessageV0, and then simulateTransaction rejects without a call
IssueLocalDryRun(slot, tx, conn) ==
    IF ~IsLegacyTx(tx) /\ tx.version # "legacy"
    THEN LocalReject(slot, VersionedMessageError)
    ELSE [slot EXCEPT !.pc = "localDryrun", !.pendingUrl = conn,
                      !.calls = Append(@, <<"simulateTransaction", conn>>)]

\* lines 513-531 up to the first await: with replaceRecentBlockhash and a legacy
\* Transaction getLatestBlockhash is awaited first
StartLocalSimulate(slot, tx, conn) ==
    IF slot.replaceRecentBlockhash /\ IsLegacyTx(tx)
    THEN [slot EXCEPT !.pc = "localBlockhash", !.pendingUrl = conn,
                      !.calls = Append(@, <<"getLatestBlockhash", conn>>)]
    ELSE IssueLocalDryRun(slot, tx, conn)

\* lines 336-356 after the body of the loop: the next key is fetched, or
\* simulateTransaction is entered
NextLocalAccount(slot, tx, conn) ==
    IF slot.keyIdx < Len(LocalAccountKeys(tx))
    THEN FetchLocalAccount(slot, slot.keyIdx + 1, conn)
    ELSE StartLocalSimulate(slot, tx, conn)

\* lines 322-338: debugLocalTransaction(transaction, options) is entered with
\* the caller's object; the first account is fetched
BeginLocal(i, tx, replace) ==
    /\ \A j \in Invocations : inv[j].pc = "idle"
    /\ localTx' = tx
    /\ inv' = [inv EXCEPT ![i] =
                  EnterLocal(
                      [IdleInvocation EXCEPT !.given = tx,
                                             !.replaceRecentBlockhash = replace],
                      tx, connection, TRUE)]
    /\ UNCHANGED <<ctorUrl, rpcUrl, connection, cli, logVars, decVars>>

\* lines 338-352: getAccountInfo of one account key settles.  For an account
\* that exists getAccountLabel is called, which runs to its end, and its
\* promise is awaited (line 347); for null, and for a rejection, which is
\* caught and printed, the loop goes on in the same turn
AfterLocalAccount(i, answer) ==
    /\ inv[i].pc = "localAccounts"
    /\ LET key == LocalAccountKeys(localTx)[inv[i].keyIdx]
           looked == getAccountLabel(cli.names, cli.disk, key, AccountInfoOf(key))
       IN  /\ inv' = [inv EXCEPT ![i] =
                  CASE answer = "info" -> AwaitLabel(inv[i], looked, "localLabel")
                    [] answer = "null" ->
                          NextLocalAccount([inv[i] EXCEPT !.absent = @ \cup {key}],
                                           localTx, connection)
                    [] answer = "throw" ->
                          NextLocalAccount(
                              ConsoleError(inv[i], <<"Failed to fetch account", key,
                                                     TransportFailure>>),
                              localTx, connection)]
           /\ cli' = Cached(Console(cli, inv[i], inv'[i]),
                            IF answer = "info" THEN looked.names ELSE cli.names)
    /\ UNCHANGED <<ctorUrl, rpcUrl, connection, localTx, logVars, decVars>>

\* lines 340-356: the promise of getAccountLabel has settled.  With a label
\* the state of the account is stored; a rejection is caught by the catch of
\* the loop (lines 350-352), which prints it, and the account is left out.  The
\* next call is issued on this.connection as it is now
AfterLocalLabel(i) ==
    /\ inv[i].pc = "localLabel"
    /\ LET key == LocalAccountKeys(localTx)[inv[i].keyIdx]
       IN  inv' = [inv EXCEPT ![i] =
                      NextLocalAccount(Labelled(inv[i], key), localTx, connection)]
    /\ cli' = Console(cli, inv[i], inv'[i])
    /\ UNCHANGED <<ctorUrl, rpcUrl, connection, localTx, logVars, decVars>>

\* lines 515-526: getLatestBlockhash settles; the blockhash is assigned to the
\* transaction object and the dry-run is called
AfterLocalBlockhash(i, ok) ==
    /\ inv[i].pc = "localBlockhash"
    /\ IF ok
       THEN /\ localTx' = [localTx EXCEPT !.recentBlockhash = LatestBlockhash]
            /\ inv' = [inv EXCEPT ![i] =
                          IssueLocalDryRun(inv[i], localTx', connection)]
       ELSE /\ inv' = [inv EXCEPT ![i] = LocalReject(inv[i], TransportFailure)]
            /\ UNCHANGED localTx
    /\ UNCHANGED <<ctorUrl, rpcUrl, connection, cli, logVars, decVars>>

\* lines 526, 530: the dry-run settles with a value and simulateTransaction
\* returns it; debugLocalTransaction, which awaits that at line 356, resumes in
\* a later turn
AfterLocalDryRun(i, value) ==
    /\ inv[i].pc = "localDryrun"
    /\ inv' = [inv EXCEPT ![i] =
          [inv[i] EXCEPT !.pc = "localReplayed", !.simulation = value]]
    /\ UNCHANGED <<ctorUrl, rpcUrl, connection, localTx, cli, logVars, decVars>>

\* lines 526, 530: connection.simulateTransaction rejects, and so does
\* simulateTransaction
LocalDryRunFails(i) ==
    /\ inv[i].pc = "localDryrun"
    /\ inv' = [inv EXCEPT ![i] = LocalReject(inv[i], TransportFailure)]
    /\ UNCHANGED <<ctorUrl, rpcUrl, connection, localTx, cli, logVars, decVars>>

\* lines 356-437: debugLocalTransaction resumes with the outcome of
\* simulateTransaction.  A rejection goes to the catch block.  With a value the
\* trace is assembled: getProgramName is called for each instruction (line
\* 396), and when it throws the catch block returns the failure instead of
\* the trace
AfterSimulateTransaction(i) ==
    /\ inv[i].pc = "localReplayed"
    /\ LET looked == ProgramNames(cli.names, cli.disk, LocalProgramIds(localTx), 1)
           warned == [inv[i] EXCEPT !.stderr = @ \o looked.warnings]
       IN  IF inv[i].rejection # Undefined
           THEN /\ inv' = [inv EXCEPT ![i] = LocalCatch(inv[i], inv[i].rejection)]
                /\ cli' = Console(cli, inv[i], inv'[i])
           ELSE /\ inv' = [inv EXCEPT ![i] =
                      IF looked.thrown # Undefined
                      THEN LocalCatch(warned, looked.thrown)
                      ELSE [warned EXCEPT
                               !.pc = "done",
                               !.result = AssembleLocalTrace(localTx, inv[i].simulation,
                                                             looked.found)]]
                /\ cli' = Cached(Console(cli, inv[i], inv'[i]), looked.names)
    /\ UNCHANGED <<ctorUrl, rpcUrl, connection, localTx, logVars, decVars>>

\* a settled await of invocation i of debugLocalTransaction
SettleLocal(i) ==
    \/ \E answer \in AccountAnswers : AfterLocalAccount(i, answer)
    \/ AfterLocalLabel(i)
    \/ \E ok \in BOOLEAN : AfterLocalBlockhash(i, ok)
    \/ \E value \in SimulationValues : AfterLocalDryRun(i, value)
    \/ LocalDryRunFails(i)
    \/ AfterSimulateTransaction(i)

\* debugLocalTransaction calls, awaited one by one
NextLocal ==
    \/ \E i \in Invocations, tx \in LocalTransactions, replace \in BOOLEAN :
           BeginLocal(i, tx, replace)
    \/ \E i \in Invocations : SettleLocal(i)
    \/ \E i \in Invocations : Return(i)

SpecLocal == Init /\ [][NextLocal]_vars

\* debugSignature and debugLocalTransaction calls on one simulator, awaited one
\* by one: no two calls overlap, and every call runs in the first slot
NextDebug ==
    \/ \E signature \in Signatures, skip \in BOOLEAN : BeginAwaited(1, signature, skip)
    \/ Settle(1, ProbeAnswers, AccountAnswers, SimulationValues)
    \/ \E tx \in LocalTransactions, replace \in BOOLEAN : BeginLocal(1, tx, replace)
    \/ SettleLocal(1)
    \/ Return(1)

SpecDebug == Init /\ [][NextDebug]_vars

\* the caller issues one debugSignature call per slot without awaiting the
\* others; the endpoints answer every call, the accounts exist and the dry-run
\* succeeds
NextConcurrent ==
    \/ \E i \in Invocations, skip \in BOOLEAN : Begin(i, "sigV0", skip)
    \/ \E i \in Invocations :
           Settle(i, {"found", "null"}, {"info"},
                  {v \in SimulationValues : v.err = Null /\ v.logs # Null})

SpecConcurrent == Init /\ [][NextConcurrent]_vars

(***************************************************************************)
(* The functions of log-parser.ts applied to a log stream.                 *)
(***************************************************************************)
InitLogs ==
    /\ logs \in StreamsOver(GroupLines, MaxLogLen)
    /\ phase = "input"
    /\ grouped = EmptyObject
    /\ successful = "unset"
    /\ IdleSimulator
    /\ NoDecoding

\* const logsByInstruction = parseTransactionLogs(logs)
CallParse ==
    /\ phase = "input"
    /\ grouped' = parseTransactionLogs(logs)
    /\ phase' = "parsed"
    /\ UNCHANGED <<logs, successful>>
    /\ UNCHANGED simVars
    /\ UNCHANGED decVars

NextLogs == CallParse

SpecLogs == InitLogs /\ [][NextLogs]_vars

InitStatus ==
    /\ logs \in StreamsOver(StatusLines, MaxStatusLen)
    /\ phase = "input"
    /\ grouped = EmptyObject
    /\ successful = "unset"
    /\ IdleSimulator
    /\ NoDecoding

\* isTransactionSuccessful(logs)
CallIsSuccessful ==
    /\ phase = "input"
    /\ successful' = isTransactionSuccessful(logs)
    /\ phase' = "judged"
    /\ UNCHANGED <<logs, grouped>>
    /\ UNCHANGED simVars
    /\ UNCHANGED decVars

NextStatus == CallIsSuccessful

SpecStatus == InitStatus /\ [][NextStatus]_vars

(***************************************************************************)
(* decodeAnchorInstruction applied to an instruction of a program whose    *)
(* IDL the simulator was constructed with (simulator.ts:79-83, :243-249).  *)
(***************************************************************************)
\* instructions an IDL declares, at most
MaxIdlLen == 2

NameTransfer == <<"t","r","a","n","s","f","e","r">>
NameTransferChecked == <<"t","r","a","n","s","f","e","r","C","h","e","c","k","e","d">>
NameInit == <<"i","n","i","t">>
IxNames == {NameTransfer, NameTransferChecked, NameInit}

\* an IdlField of type u64
AmountField == [name |-> "amount", type |-> "u64"]

\* the IdlInstruction values (types.ts: name, accounts, args)
IdlInstructions ==
    {[name |-> n, accounts |-> <<>>, args |-> a] : n \in IxNames, a \in {<<>>, <<AmountField>>}}

\* the IDLs a caller may put in anchorIdlMap: null, an IDL without an
\* instruction list, and IDLs that declare up to n instructions
Idls(n) ==
    {Null, [version |-> "0.1.0"]} \cup
    {[version |-> "0.1.0", instructions |-> l] :
        l \in UNION {[1..k -> IdlInstructions] : k \in 0..n}}

\* 1000 as a u64 in little-endian bytes, whole, cut short, and with a byte too many
ArgBytes ==
    {<<>>, <<232, 3, 0, 0, 0, 0, 0, 0>>, <<232, 3, 0, 0>>, <<232, 3, 0, 0, 0, 0, 0, 0, 0>>}

\* leading bytes of a payload: the bytes of 'transfer', of 'init' padded with
\* zeros, and of 'transfeX'
LeadBytes ==
    {<<116, 114, 97, 110, 115, 102, 101, 114>>,
     <<105, 110, 105, 116, 0, 0, 0, 0>>,
     <<116, 114, 97, 110, 115, 102, 101, 88>>}

\* payloads shorter than a discriminator: empty, and 'init'
ShortBytes == {<<>>, <<105, 110, 105, 116>>}

\* the instructions handed to the decoder
Instructions ==
    {[programIdIndex |-> 1, accounts |-> <<0>>, data |-> BufferData(lead \o rest)] :
        lead \in LeadBytes, rest \in ArgBytes}
    \cup {[programIdIndex |-> 1, accounts |-> <<0>>, data |-> BufferData(b)] : b \in ShortBytes}
    \cup {[programIdIndex |-> 1, accounts |-> <<0>>, data |-> StringData(<<"3","B","x","s">>)]}

InitDecode ==
    /\ givenIx \in Instructions
    /\ anchorIdl = Undefined
    /\ decoded = NoResult
    /\ derived = <<>>
    /\ phase = "new"
    /\ logs = <<>>
    /\ grouped = EmptyObject
    /\ successful = "unset"
    /\ IdleSimulator

\* new TransactionSimulator(rpcUrl, anchorIdlMap): the map is stored as it is
Construct(idl) ==
    /\ phase = "new"
    /\ anchorIdl' = idl
    /\ phase' = "constructed"
    /\ UNCHANGED <<givenIx, decoded, derived, logs, grouped, successful>>
    /\ UNCHANGED simVars

\* decodeAnchorInstruction(givenIx, this.anchorIdlMap.get(programId), accountKeys)
CallDecode ==
    /\ phase = "constructed"
    /\ decoded' = decodeAnchorInstruction(givenIx, anchorIdl)
    /\ derived' = DerivedBy(anchorIdl, givenIx.data)
    /\ phase' = "decoded"
    /\ UNCHANGED <<givenIx, anchorIdl, logs, grouped, successful>>
    /\ UNCHANGED simVars

NextDecode ==
    \/ \E idl \in Idls(MaxIdlLen) : Construct(idl)
    \/ CallDecode

SpecDecode == InitDecode /\ [][NextDecode]_vars

(***************************************************************************)
(* The command line (cli/index.ts) and the `tx <signature>` command        *)
(* (TransactionCommand.execute).  The process is alive until it exits;     *)
(* stdout and stderr hold what console.log and console.error / console.warn *)
(* were given, one entry per call with the values of the call; a formatted  *)
(* report is the entry <<"output", result>>.                                *)
(***************************************************************************)
LitHttp == <<"h","t","t","p",":">>
LitHttps == <<"h","t","t","p","s",":">>

\* new Connection(endpoint) (simulator.ts:81): the client of @solana/web3.js
\* takes an endpoint that starts with http: or https: and throws a TypeError
\* for any other
ConnectionAccepts(url) ==
    StartsWith(UrlText(url), LitHttp) \/ StartsWith(UrlText(url), LitHttps)

EndpointTypeError == ErrorObject(<<"Endpoint URL must start with http: or https:">>)

LitMainnetBeta == <<"m","a","i","n","n","e","t","-","b","e","t","a">>
LitLocalhost == <<"l","o","c","a","l","h","o","s","t">>
LitLocal == <<"l","o","c","a","l">>
LitCustom == <<"c","u","s","t","o","m">>

UpperCaseLetters ==
    <<"A","B","C","D","E","F","G","H","I","J","K","L","M",
      "N","O","P","Q","R","S","T","U","V","W","X","Y","Z">>
LowerCaseLetters ==
    <<"a","b","c","d","e","f","g","h","i","j","k","l","m",
      "n","o","p","q","r","s","t","u","v","w","x","y","z">>

\* String.prototype.toLowerCase (anchor-utils.ts:342) on a text of ASCII
\* characters
toLowerCase(text) ==
    [n \in 1..Len(text) |->
        LET at == {k \in 1..Len(UpperCaseLetters) : UpperCaseLetters[k] = text[n]}
        IN  IF at = {} THEN text[n] ELSE LowerCaseLetters[CHOOSE k \in at : TRUE]]

\* getClusterEndpoint (anchor-utils.ts:341-357): the text of the endpoint of a
\* cluster name, whatever the case of its letters, or the text itself
getClusterEndpoint(network) ==
    LET lower == toLowerCase(network)
    IN  CASE lower \in {LitMainnet, LitMainnetBeta} -> UrlText(MainnetUrl)
          [] lower = LitTestnet -> UrlText(TestnetUrl)
          [] lower = LitDevnet -> UrlText(DevnetUrl)
          [] lower \in {LitLocalhost, LitLocal} -> UrlText(LocalUrl)
          [] OTHER -> network

\* the endpoint whose URL has these characters
UrlOfText(text) == CHOOSE url \in RpcUrls \cup {SchemelessUrl} : UrlText(url) = text

\* the values of --url (cli/index.ts:28), as texts; the option may be given
\* empty
UrlOptions ==
    {LitMainnet, <<"D","e","v","n","e","t">>, <<"T","E","S","T","N","E","T">>,
     <<"L","o","c","a","l">>, UrlText(SchemelessUrl), <<>>}

\* cli/index.ts:43, :63, :80: getClusterEndpoint(parentOptions.url || 'devnet')
EndpointOfOption(url) ==
    UrlOfText(getClusterEndpoint(IF url = <<>> THEN LitDevnet ELSE url))

\* text.split(separator) on a text given as its pieces: the texts between the
\* separators
RECURSIVE Split(_, _)
Split(pieces, separator) ==
    LET at == {n \in 1..Len(pieces) : pieces[n] = separator}
    IN  IF at = {} THEN <<pieces>>
        ELSE LET first == CHOOSE n \in at : \A m \in at : n <= m
             IN  <<SubSeq(pieces, 1, first - 1)>>
                     \o Split(SubSeq(pieces, first + 1, Len(pieces)), separator)

\* the text as one piece: a key, a path or a name ("" when the text is empty)
PieceOf(text) == IF Len(text) = 1 THEN text[1] ELSE ""

Base64Alphabet ==
    UpperCaseLetters \o LowerCaseLetters
        \o <<"0","1","2","3","4","5","6","7","8","9","+","/">>

\* the two characters the URL-safe alphabet has for 62 and 63
Base64UrlAlphabet ==
    UpperCaseLetters \o LowerCaseLetters
        \o <<"0","1","2","3","4","5","6","7","8","9","-","_">>

\* the six bits a character stands for in either alphabet, or -1
Base64Value(c) ==
    LET at == {k \in 1..Len(Base64Alphabet) :
                  Base64Alphabet[k] = c \/ Base64UrlAlphabet[k] = c}
    IN  IF at = {} THEN -1 ELSE (CHOOSE k \in at : TRUE) - 1

\* the text up to its first '=', the whole text when it has none
BeforePadding(text) ==
    IF \A n \in 1..Len(text) : text[n] # "=" THEN text
    ELSE SubSeq(text, 1, (CHOOSE n \in 1..Len(text) :
                             /\ text[n] = "="
                             /\ \A m \in 1..(n - 1) : text[m] # "=") - 1)

\* the bytes of a sequence of six-bit values: the full groups of eight bits
BytesOf(sextets) ==
    [j \in 1..((Len(sextets) * 6) \div 8) |->
        ((sextets[(8 * (j - 1)) \div 6 + 1] * 64 + sextets[(8 * (j - 1)) \div 6 + 2])
            \div (2 ^ (4 - ((8 * (j - 1)) % 6)))) % 256]

\* the six-bit values of the characters of a text
Sextets(symbols) == [n \in 1..Len(symbols) |-> Base64Value(symbols[n])]

\* Buffer.from(text, 'base64') (program.ts:72): the text is read up to its
\* first '=', the characters of the two alphabets carry six bits each and any
\* other character is skipped; the bytes are the full groups of eight bits
Base64Decode(text) ==
    BytesOf(Sextets(SelectSeq(BeforePadding(text), LAMBDA c : Base64Value(c) >= 0)))

\* the keys new PublicKey(text) takes; for any other text it throws
PublicKeys == {Base58Order[n] : n \in 1..Len(Base58Order)}
IsPublicKey(key) == key \in PublicKeys
InvalidPublicKeyInput == ErrorObject(<<"Invalid public key input">>)

\* the error fs gives for a path that is not there
NoSuchFile(path) == ErrorObject(<<"ENOENT: no such file or directory, open", path>>)

\* the directories --idl may name, with their files
Directories ==
    [path \in {"idls"} |->
        <<[name |-> <<"alpha", ".json">>, idl |-> AlphaIdl],
          [name |-> <<"beta", ".json">>, idl |-> BetaIdl],
          [name |-> <<"gamma", ".json">>, idl |-> GammaIdl],
          [name |-> <<"notes", ".txt">>, idl |-> Null]>>]

\* the keypair files --signers may name, with the public key of each
KeypairFiles == [path \in {"id.json"} |-> "signerA"]

\* the shell has not started the command yet
Shell(disk) == [mode |-> "shell", alive |-> TRUE, exitCode |-> 0,
                stdout |-> <<>>, stderr |-> <<>>, file |-> Undefined, disk |-> disk,
                names |-> EmptyObject]

\* cli/index.ts:32-33: the banner every command starts with
Banner == <<<<"SolTrace">>, <<"SolTrace CLI - Solana transaction debugger">>>>

\* process.exit(code)
ProcessExit(process, code) == [process EXCEPT !.mode = "ended", !.alive = FALSE,
                                              !.exitCode = code]

\* the event loop has nothing left to run: the process ends with status 0
ProcessEnds(process) == [process EXCEPT !.mode = "ended", !.alive = FALSE]

\* lines 57-61: the catch block of TransactionCommand.execute
ExecuteCatch(process, error) ==
    ProcessExit([process EXCEPT !.stderr = @ \o
                     <<<<"Error debugging transaction:">>, <<error>>>>], 1)

\* lines 41-56 of TransactionCommand.execute: the outcome is printed, then the
\* formatted result (formatOutput prints `Error: ${result.error}` when it has
\* one) goes to the console, or with options.file to that file; written tells
\* whether fs.writeFileSync succeeds, and when it throws the catch block ends
\* the process
PrintResult(process, result, file, written) ==
    LET reported == [process EXCEPT !.stdout = Append(@,
                        IF result.success THEN <<"Transaction simulation successful">>
                        ELSE <<"Transaction simulation failed:", result.error>>)]
    IN  IF ~Truthy(file)
        THEN [reported EXCEPT !.stdout = Append(@, <<"output", result>>)]
        ELSE IF written
        THEN [reported EXCEPT
                 !.disk.out = Append(@, <<file.text, <<"output", result>>>>),
                 !.stdout = Append(@, <<"Output written to", file.text>>)]
        ELSE ExecuteCatch(reported, NoSuchFile(file.text))

\* lines 26-39: TransactionCommand.execute(signature, options) prints what it
\* debugs, builds a simulator on options.rpcUrl and awaits debugSignature; a
\* constructor that throws is caught by the catch block.  running is the
\* process as execute is entered.
RunExecute(signature, url, skip, running) ==
    LET started == [running EXCEPT !.stdout = @ \o
                       <<<<"Debugging transaction:", signature>>,
                         <<"Using RPC URL:", url>>>>]
    IN
    IF ConnectionAccepts(url)
    THEN /\ ctorUrl' = url
         /\ rpcUrl' = url
         /\ connection' = url
         /\ inv' = [inv EXCEPT ![1] =
                       [IdleInvocation EXCEPT !.pc = "primary",
                                              !.signature = signature,
                                              !.skipNetworkFallback = skip,
                                              !.pendingUrl = url,
                                              !.probes = <<url>>]]
         /\ cli' = [started EXCEPT !.stdout = Append(@, <<"Simulating transaction...">>)]
    ELSE /\ cli' = ExecuteCatch(started, EndpointTypeError)
         /\ UNCHANGED <<ctorUrl, rpcUrl, connection, inv>>

\* the values of --file (cli/index.ts:40): not given, empty, or a path
FileOptions == {Undefined, StringValue(""), StringValue("out.txt")}

\* cli/index.ts:40-50: the tx command calls execute with the endpoint of --url
\* and the path of --file
Execute(signature, network, skip, file) ==
    /\ cli.mode = "shell"
    /\ RunExecute(signature, EndpointOfOption(network), skip,
                  [cli EXCEPT !.mode = "tx", !.stdout = Banner, !.file = file])
    /\ UNCHANGED <<localTx, logVars, decVars>>

\* lines 39-62: debugSignature has returned its DebugTransaction; it is printed
\* or written, and execute returns or its catch block ends the process
ExecuteReturns(written) ==
    /\ cli.mode = "tx"
    /\ inv[1].pc = "done"
    /\ Truthy(cli.file) \/ written
    /\ LET printed == PrintResult(cli, inv[1].result, cli.file, written)
       IN  cli' = IF printed.alive THEN ProcessEnds(printed) ELSE printed
    /\ UNCHANGED <<ctorUrl, rpcUrl, connection, inv, localTx, logVars, decVars>>

(***************************************************************************)
(* The `program <programId>` command (ProgramCommand.execute).  The        *)
(* options are texts: ix is base64, accounts is JSON, signers is a list of *)
(* paths separated by commas.                                              *)
(***************************************************************************)
\* Keypair.generate(): the key of the temporary fee payer
GeneratedKey == "payer"

\* lines 35-36: options.signers.split(',')
KeyPaths(options) ==
    IF Truthy(options.signers) THEN Split(options.signers.text, ",") ELSE <<>>

\* lines 37-46: the paths whose keypair file loads
LoadedPaths(options) ==
    SelectSeq(KeyPaths(options), LAMBDA path : PieceOf(path) \in DOMAIN KeypairFiles)

\* lines 34-54: the public keys of the signers: the keypairs that loaded, or
\* the generated one
Signers(options) ==
    IF LoadedPaths(options) = <<>> THEN <<GeneratedKey>>
    ELSE [n \in 1..Len(LoadedPaths(options)) |-> KeypairFiles[PieceOf(LoadedPaths(options)[n])]]

\* accountStrs.map throws when JSON.parse gave null, or a value that is no
\* array
NotAnArray(value) ==
    IF value = Null THEN ErrorObject(<<"Cannot read properties of null (reading 'map')">>)
    ELSE ErrorObject(<<"accountStrs.map is not a function">>)

\* new PublicKey(value) (line 60) of @solana/web3.js for an element of the
\* array: a string is read as base58 and must be a key, a number is taken as
\* the value of the key, and any other value is refused (null with the
\* TypeError of reading its property)
NewPublicKey(value) ==
    CASE value.kind = "string" ->
            IF IsPublicKey(value.text) THEN Returned(value.text)
            ELSE Thrown(InvalidPublicKeyInput)
      [] value.kind = "number" -> Returned(NumberKey(value.value))
      [] value.kind = "null" -> Thrown(CannotReadProperty("_bn"))
      [] OTHER -> Thrown(InvalidPublicKeyInput)

\* line 61: the keys the calls of new PublicKey made, or the error of the
\* first call that threw
KeysMade(made) ==
    IF \E n \in 1..Len(made) : made[n].kind = "throw"
    THEN [error |-> made[CHOOSE n \in 1..Len(made) :
                             /\ made[n].kind = "throw"
                             /\ \A m \in 1..(n - 1) : made[m].kind # "throw"].error,
          keys |-> <<>>]
    ELSE [error |-> Undefined, keys |-> [n \in 1..Len(made) |-> made[n].value]]

\* lines 60-61: accountStrs.map((acc) => new PublicKey(acc)) on what
\* JSON.parse gave
MapPublicKeys(accountStrs) ==
    IF accountStrs = JsonSyntaxError
    THEN [error |-> JsonSyntaxError, keys |-> <<>>]
    ELSE IF accountStrs.kind # "array"
    THEN [error |-> NotAnArray(accountStrs), keys |-> <<>>]
    ELSE KeysMade([n \in 1..Len(accountStrs.items) |->
                      NewPublicKey(accountStrs.items[n])])

\* lines 57-66: the account keys of options.accounts, or the error the try
\* block catches
AccountKeys(options) ==
    IF ~Truthy(options.accounts) THEN [error |-> Undefined, keys |-> <<>>]
    ELSE MapPublicKeys(JsonParse(options.accounts.text))

\* lines 69-80: the instruction data
InstructionData(options) ==
    IF Truthy(options.ix) THEN Base64Decode(options.ix.text) ELSE <<>>

\* program.ts:82-108: the transaction ProgramCommand builds: one instruction of
\* the program on the accounts, each writable and a signer when a signer has
\* its key, with the fee payer put in front when it is not among them; no
\* recentBlockhash is set
TransactionOf(programId, signers, accountKeys, data) ==
    LET keys == [n \in 1..Len(accountKeys) |->
                    [pubkey |-> accountKeys[n],
                     isSigner |-> \E s \in 1..Len(signers) : signers[s] = accountKeys[n],
                     isWritable |-> TRUE]]
        feePayer == signers[1]
    IN  [kind |-> "Transaction",
         feePayer |-> feePayer,
         recentBlockhash |-> "unset",
         instructions |->
            <<[programId |-> programId,
               keys |-> IF \E n \in 1..Len(keys) : keys[n].pubkey = feePayer THEN keys
                        ELSE <<[pubkey |-> feePayer, isSigner |-> TRUE,
                                isWritable |-> TRUE]>> \o keys,
               data |-> BufferData(data)]>>]

\* the transaction of the signers, the account keys and the instruction data
\* the options give
ProgramTransaction(programId, options) ==
    TransactionOf(programId, Signers(options), AccountKeys(options).keys,
                  InstructionData(options))

\* program.ts:128-132: the catch block of ProgramCommand.execute
ProgramCatch(process, error) ==
    ProcessExit([process EXCEPT !.stderr = @ \o
                     <<<<"Error debugging program instruction:">>, <<error>>>>], 1)

\* program.ts:30-54: what ProgramCommand.execute prints while it loads the
\* signers
ProgramStarted(process, programId, url, options) ==
    LET paths == KeyPaths(options)
        loaded == LoadedPaths(options)
        failed == SelectSeq(paths, LAMBDA path : PieceOf(path) \notin DOMAIN KeypairFiles)
    IN  [process EXCEPT
            !.stdout = @ \o <<<<"Debugging program:", programId>>,
                              <<"Using RPC URL:", url>>>>
                         \o [n \in 1..Len(loaded) |->
                                <<"Loaded signer:", KeypairFiles[PieceOf(loaded[n])]>>]
                         \o (IF loaded = <<>>
                             THEN <<<<"No signers provided. Generated temporary key:",
                                      GeneratedKey>>>>
                             ELSE <<>>),
            !.stderr = @ \o [n \in 1..Len(failed) |->
                                <<"Could not load keypair from", PieceOf(failed[n]),
                                  NoSuchFile(PieceOf(failed[n])).message>>]]

\* program.ts:119-126: the outcome and the result are displayed
DisplayResult(process, result) ==
    [process EXCEPT !.stdout = @ \o
        <<IF result.success THEN <<"Instruction simulation successful">>
          ELSE <<"Instruction simulation failed:", result.error>>,
          <<"output", result>>>>]

\* program.ts:69-80: what is printed when there is no instruction data
DataNoted(started, options) ==
    IF Truthy(options.ix) THEN started
    ELSE [started EXCEPT !.stdout = Append(@,
             <<"No instruction data provided. Using empty data buffer.">>)]

\* program.ts:110-117: a simulator is built on options.rpcUrl and
\* debugLocalTransaction is called on the transaction and awaited
Simulating(url, built, tx, compiles) ==
    IF ~ConnectionAccepts(url)
    THEN /\ cli' = ProgramCatch(built, EndpointTypeError)
         /\ UNCHANGED <<ctorUrl, rpcUrl, connection, localTx, inv>>
    ELSE /\ ctorUrl' = url
         /\ rpcUrl' = url
         /\ connection' = url
         /\ localTx' = tx
         /\ inv' = [inv EXCEPT ![1] =
                       EnterLocal([IdleInvocation EXCEPT !.given = tx], tx, url, compiles)]
         /\ cli' = Console([built EXCEPT !.stdout = Append(@, <<"Simulating instruction...">>)],
                           IdleInvocation, inv'[1])

\* program.ts:56-117: the accounts are parsed (an error there ends the
\* process, line 64), then the instruction data, and the transaction is built
Parsing(programId, options, url, started, accountKeys, compiles) ==
    IF accountKeys.error # Undefined
    THEN /\ cli' = ProcessExit(
                       [started EXCEPT !.stderr = Append(@,
                           <<"Invalid accounts format:", accountKeys.error.message>>)],
                       1)
         /\ UNCHANGED <<ctorUrl, rpcUrl, connection, localTx, inv>>
    ELSE Simulating(url, DataNoted(started, options),
                    ProgramTransaction(programId, options), compiles)

\* program.ts:27-117: ProgramCommand.execute(programId, options) checks the
\* program id, loads the signers, parses the accounts and the instruction
\* data, builds the transaction and a simulator on options.rpcUrl, and awaits
\* debugLocalTransaction.  running is the process as execute is entered;
\* compiles tells whether compileMessage takes a transaction without
\* recentBlockhash.
RunProgram(programId, options, url, running, compiles) ==
    IF ~IsPublicKey(programId)
    THEN /\ cli' = ProgramCatch(running, InvalidPublicKeyInput)
         /\ UNCHANGED <<ctorUrl, rpcUrl, connection, localTx, inv>>
    ELSE Parsing(programId, options, url,
                 ProgramStarted(running, programId, url, options),
                 AccountKeys(options), compiles)

\* the values of --ix (cli/index.ts:57): not given, the base64 text AQID, and
\* a text of the URL-safe alphabet with padding before its end
IxOptions == {Undefined, StringValue(<<"A","Q","I","D">>),
              StringValue(<<"-","_","8","=","A","Q">>)}

\* the values of --accounts (cli/index.ts:58, '[]' when not given): arrays of
\* keys, an array with a text that is no key, an array of a number, null,
\* true, a text that is not JSON, and the empty text
AccountsOptions ==
    {StringValue(<<"[", "]">>),
     StringValue(<<"[", "\"", "acctA", "\"", "]">>),
     StringValue(<<"[", "\"", "signerA", "\"", ",", "\"", "acctA", "\"", "]">>),
     StringValue(<<"[", "\"", "shortKey", "\"", "]">>),
     StringValue(<<"[", "5", "]">>),
     StringValue(<<"null">>),
     StringValue(<<"true">>),
     StringValue(<<"acctA">>),
     StringValue(<<>>)}

\* the values of --signers (cli/index.ts:59): not given, or two paths of which
\* the first has a keypair file
SignersOptions == {Undefined, StringValue(<<"id.json", ",", "missing.json">>)}

ProgramOptions == [ix : IxOptions, accounts : AccountsOptions, signers : SignersOptions]

\* cli/index.ts:61-70: the program command calls execute with the endpoint of
\* --url and its options
Program(programId, network, options, compiles) ==
    /\ cli.mode = "shell"
    /\ RunProgram(programId, options, EndpointOfOption(network),
                  [cli EXCEPT !.mode = "program", !.stdout = Banner], compiles)
    /\ UNCHANGED <<logVars, decVars>>

\* program.ts:115-126: debugLocalTransaction has returned; the result is
\* displayed and execute returns
ProgramExecuteReturns ==
    /\ cli.mode = "program"
    /\ inv[1].pc = "done"
    /\ cli' = ProcessEnds(DisplayResult(cli, inv[1].result))
    /\ UNCHANGED <<ctorUrl, rpcUrl, connection, inv, localTx, logVars, decVars>>

(***************************************************************************)
(* The `config` command (ConfigCommand, commands/config.ts).  The mapping  *)
(* files hold JSON; a cached IDL is held as JSON.parse reads it.           *)
(***************************************************************************)
ConfigDir == "$HOME/.soltrace"

\* options[name]: undefined for a name the object does not have
OptionOf(options, name) == IF name \in DOMAIN options THEN options[name] ELSE Undefined

\* config.ts:234-254: the constructor creates the mapping files that are not
\* there
ensureConfigDir(process) ==
    LET created(file) == IF file.exists THEN file ELSE File(JsonStringify(PlainObject(<<>>)))
    IN  [process EXCEPT !.disk.programs = created(@), !.disk.accounts = created(@)]

\* config.ts:205-229: readProgramMappings and readAccountMappings return what
\* the file holds, or {} when it is missing or is not JSON
ReadMappings(file) ==
    IF file.exists /\ JsonParse(file.text) # JsonSyntaxError THEN JsonParse(file.text)
    ELSE PlainObject(<<>>)

\* config.ts:209-211, 224-226: the warning for a file that is not JSON
ReadWarned(process, which) ==
    IF process.disk[which].exists /\ JsonParse(process.disk[which].text) = JsonSyntaxError
    THEN [process EXCEPT !.stderr = Append(@,
             <<IF which = "programs" THEN "Error reading program mappings file:"
               ELSE "Error reading account mappings file:", JsonSyntaxError.message>>)]
    ELSE process

CannotSetProperty == ErrorObject(<<"Cannot set properties of null">>)
\* the TypeError of setting a property of a number, a boolean or a string in
\* strict mode
CannotCreateProperty == ErrorObject(<<"Cannot create property">>)

\* mappings[key] = label followed by JSON.stringify(mappings): an object takes
\* the property, an array takes it and writes its elements only, null and the
\* primitive values throw
Mapped(mappings, key, label) ==
    CASE mappings.kind = "object" -> Returned(SetProperty(mappings, key, label))
      [] mappings.kind = "array" -> Returned(mappings)
      [] mappings.kind = "null" -> Thrown(CannotSetProperty)
      [] OTHER -> Thrown(CannotCreateProperty)

\* Object.keys(mappings) with the value of each: the properties of an object,
\* the elements of an array under their indices, the text of a string under
\* 0 (the strings of the files have one character at most), and nothing for a
\* number or a boolean
Entries(mappings) ==
    CASE mappings.kind = "object" -> mappings.properties
      [] mappings.kind = "array" ->
            [n \in 1..Len(mappings.items) |-> Property(ToString(n - 1), mappings.items[n])]
      [] mappings.kind = "string" ->
            IF IsEmptyString(mappings.text) THEN <<>> ELSE <<Property("0", mappings)>>
      [] OTHER -> <<>>

\* config.ts:94-112 and 119-137: mapProgram and mapAccount put the entry in the
\* file which names (programs or accounts); every error is caught and printed
MapEntry(process, which, key, label) ==
    LET failed == IF which = "programs" THEN "Error mapping program:"
                  ELSE "Error mapping account:"
        done == IF which = "programs" THEN <<"Mapped program", key, "to name", label>>
                ELSE <<"Mapped account", key, "to label", label>>
        warned == ReadWarned(process, which)
        mappings == ReadMappings(process.disk[which])
    IN  IF ~IsPublicKey(key)
        THEN [process EXCEPT !.stderr = Append(@, <<failed, InvalidPublicKeyInput.message>>)]
        ELSE IF Mapped(mappings, key, label).kind = "throw"
        THEN [warned EXCEPT !.stderr = Append(@,
                 <<failed, Mapped(mappings, key, label).error.message>>)]
        ELSE [warned EXCEPT
                 !.disk[which] = File(JsonStringify(Mapped(mappings, key, label).value)),
                 !.stdout = Append(@, done)]

\* config.ts:49-50 and 55-56: the two texts of the option, split at the space
\* (the second is undefined when there is no space)
MapArgument(text, n) ==
    IF n <= Len(Split(text, " ")) THEN StringValue(PieceOf(Split(text, " ")[n]))
    ELSE Undefined

\* config.ts:94-112
mapProgram(process, text) ==
    MapEntry(process, "programs", MapArgument(text, 1).text, MapArgument(text, 2))

\* config.ts:119-137
mapAccount(process, text) ==
    MapEntry(process, "accounts", MapArgument(text, 1).text, MapArgument(text, 2))

\* anchor-utils.ts:181-210: createLocalIdlRegistry copies every .json file of
\* the directory that has metadata.address to the cache, under that address
CachedFrom(cache, files) ==
    LET copied == SelectSeq(files, LAMBDA f : /\ f.name[Len(f.name)] = ".json"
                                              /\ f.idl \notin {Null, JsonSyntaxError}
                                              /\ Truthy(f.idl.address))
        renamed == [n \in 1..Len(copied) |->
                       [name |-> <<copied[n].idl.address.text, ".json">>, idl |-> copied[n].idl]]
        kept == SelectSeq(cache, LAMBDA c : \A n \in 1..Len(renamed) : renamed[n].name # c.name)
    IN  kept \o renamed

\* config.ts:74-87: registerIdl
registerIdl(process, path) ==
    IF path \notin DOMAIN Directories
    THEN [process EXCEPT !.stderr = Append(@, <<"Directory not found:", path>>)]
    ELSE [process EXCEPT
             !.stdout = @ \o <<<<"Registering IDLs from:", path>>,
                               <<"IDL registration complete">>>>,
             !.disk.idl = CachedFrom(@, Directories[path])]

\* Object.keys(null) throws
CannotConvert == ErrorObject(<<"Cannot convert undefined or null to object">>)

\* config.ts:150-159 and 162-171: the lines of one kind of mappings
MappingLines(title, none, mappings) ==
    <<<<title, Len(Entries(mappings))>>>>
        \o (IF Len(Entries(mappings)) = 0 THEN <<<<none>>>>
            ELSE [n \in 1..Len(Entries(mappings)) |->
                     <<" ", Entries(mappings)[n].name, "=>",
                       IF Entries(mappings)[n].value.kind = "string"
                       THEN Entries(mappings)[n].value.text
                       ELSE Entries(mappings)[n].value>>])
        \o <<<<>>>>

\* config.ts:142-199: listConfiguration prints the directory, the mappings and
\* the cached IDLs; Object.keys throws on a mappings file that holds null
listConfiguration(process) ==
    LET programs == ReadMappings(process.disk.programs)
        accounts == ReadMappings(process.disk.accounts)
        headed == [process EXCEPT !.stdout = @ \o
                      <<<<"=== SolTrace Configuration ===">>,
                        <<"Configuration Directory:">>, <<ConfigDir>>, <<>>>>]
        readPrograms == ReadWarned(headed, "programs")
        listedPrograms == [readPrograms EXCEPT !.stdout = @ \o
                              MappingLines("Program Mappings", "  No program mappings defined", programs)]
        readAccounts == ReadWarned(listedPrograms, "accounts")
        listedAccounts == [readAccounts EXCEPT !.stdout = @ \o
                              MappingLines("Account Mappings", "  No account mappings defined", accounts)]
        cache == SelectSeq(process.disk.idl, LAMBDA c : c.name[Len(c.name)] = ".json")
    IN  IF programs = Null THEN [process |-> readPrograms, error |-> CannotConvert]
        ELSE IF accounts = Null THEN [process |-> readAccounts, error |-> CannotConvert]
        ELSE [process |->
                 [listedAccounts EXCEPT !.stdout = @ \o
                     <<<<"Cached IDLs", Len(cache)>>>>
                         \o (IF cache = <<>> THEN <<<<"  No IDLs cached">>>>
                             ELSE [n \in 1..Len(cache) |->
                                      IF cache[n].idl \in {Null, JsonSyntaxError}
                                      THEN <<" ", cache[n].name[1]>>
                                      ELSE <<" ", cache[n].name[1], "=>", cache[n].idl.name,
                                             cache[n].idl.version>>])],
              error |-> Undefined]

\* config.ts:40-68: ConfigCommand.execute(options)
ConfigExecute(process, options) ==
    LET idl == OptionOf(options, "idl")
        program == OptionOf(options, "map-program")
        account == OptionOf(options, "map-account")
        registered == IF Truthy(idl) THEN registerIdl(process, idl.text) ELSE process
        mappedProgram == IF Truthy(program) THEN mapProgram(registered, program.text)
                         ELSE registered
        mappedAccount == IF Truthy(account) THEN mapAccount(mappedProgram, account.text)
                         ELSE mappedProgram
        listed == IF \/ Truthy(OptionOf(options, "list"))
                     \/ (~Truthy(idl) /\ ~Truthy(program) /\ ~Truthy(account))
                  THEN listConfiguration(mappedAccount)
                  ELSE [process |-> mappedAccount, error |-> Undefined]
    IN  IF listed.error # Undefined
        THEN ProcessExit([listed.process EXCEPT !.stderr = @ \o
                             <<<<"Error executing config command:">>, <<listed.error>>>>], 1)
        ELSE ProcessEnds(listed.process)

\* the options the command line gives the config command (cli/index.ts:94-105):
\* an option is stored under its name in camel case
ConfigOptions ==
    {[verbose |-> FALSE],
     [verbose |-> FALSE, list |-> BooleanValue(TRUE)],
     [verbose |-> FALSE, idl |-> StringValue("idls")],
     [verbose |-> FALSE, idl |-> StringValue("no-such-dir"), list |-> BooleanValue(TRUE)],
     [verbose |-> FALSE, mapProgram |-> StringValue(<<"progQ", " ", "Beta">>)],
     [verbose |-> FALSE, mapAccount |-> StringValue(<<"acctA", " ", "Vault">>)]}

\* cli/index.ts:98-105: the config command builds a ConfigCommand and calls
\* execute, which runs to its end
Config(options) ==
    /\ cli.mode = "shell"
    /\ cli' = ConfigExecute(
                  ensureConfigDir([cli EXCEPT !.mode = "config", !.stdout = Banner]),
                  options)
    /\ UNCHANGED <<ctorUrl, rpcUrl, connection, inv, localTx, logVars, decVars>>

InitCli ==
    /\ ctorUrl = DevnetUrl
    /\ rpcUrl = ctorUrl
    /\ connection = ctorUrl
    /\ inv = [i \in Invocations |-> IdleInvocation]
    /\ localTx = Undefined
    /\ cli \in {Shell(disk) : disk \in Disks}
    /\ logs = <<>>
    /\ phase = "idle"
    /\ grouped = EmptyObject
    /\ successful = "unset"
    /\ NoDecoding

\* a command is started from the shell only, whatever its arguments are
NextCli ==
    \/ /\ cli.mode = "shell"
       /\ \E signature \in Signatures, network \in UrlOptions, skip \in BOOLEAN,
             file \in FileOptions :
              Execute(signature, network, skip, file)
    \/ Settle(1, ProbeAnswers, AccountAnswers, SimulationValues)
    \/ \E written \in BOOLEAN : ExecuteReturns(written)
    \/ /\ cli.mode = "shell"
       /\ \E programId \in {"progP", "shortKey"}, network \in UrlOptions,
             options \in ProgramOptions, compiles \in BOOLEAN :
              Program(programId, network, options, compiles)
    \/ \E answer \in AccountAnswers : AfterLocalAccount(1, answer)
    \/ AfterLocalLabel(1)
    \/ \E value \in SimulationValues : AfterLocalDryRun(1, value)
    \/ LocalDryRunFails(1)
    \/ AfterSimulateTransaction(1)
    \/ ProgramExecuteReturns
    \/ /\ cli.mode = "shell"
       /\ \E options \in ConfigOptions : Config(options)

SpecCli == InitCli /\ [][NextCli]_vars

(***************************************************************************)
(* The interactive session (InteractiveCommand).  The menu loop runs the   *)
(* chosen action and prompts again; each debug action builds its own       *)
(* command object and simulator.  stdout and stderr hold the output of the *)
(* last action (of the start of the session before the first); rpcUrl is   *)
(* options.rpcUrl, chosen the last menu entry.                             *)
(***************************************************************************)
\* the custom RPC URLs typed at the prompt (any non-empty text is accepted)
CustomUrls == {MainnetUrl, SchemelessUrl}

\* the entries of the network list (lines 266-272)
NetworkChoices == {LitMainnet, LitTestnet, LitDevnet, LitLocalhost, LitCustom}

\* the disks an interactive session runs on
SessionDisks == {MappedDisk, NullDisk}

\* the shell has not started the interactive command yet: no endpoint, no
\* menu entry chosen
Session(disk) == [mode |-> "shell", alive |-> TRUE, exitCode |-> 0,
                  stdout |-> <<>>, stderr |-> <<>>, rpcUrl |-> "none",
                  chosen |-> "none", disk |-> disk, names |-> EmptyObject]

\* lines 28-33: the session has its connection, has greeted and shows the menu
Menu(process, url) ==
    [process EXCEPT !.mode = "menu", !.rpcUrl = url,
                    !.stdout = Banner \o <<<<"Starting interactive debugging session...">>,
                                            <<"Connected to:", url>>>>]

\* the menu entry is chosen and its action starts with an empty screen
Chosen(process, action, mode) ==
    [process EXCEPT !.mode = mode, !.chosen = action, !.stdout = <<>>, !.stderr = <<>>]

\* an error leaves execute: the promise rejects with no handler (cli/index.ts:
\* 78-88) and the process is terminated with status 1
UnhandledRejection(process, error) ==
    ProcessExit([process EXCEPT !.stderr = @ \o <<<<error>>>>], 1)

\* lines 52-54, 77-106: 'tx' is chosen; debugTransaction prompts for the
\* signature and calls TransactionCommand.execute without skipNetworkFallback
ChooseTx(signature) ==
    /\ cli.mode = "menu"
    /\ RunExecute(signature, cli.rpcUrl, FALSE,
                  [Chosen(cli, "tx", "debugTransaction") EXCEPT !.stdout =
                      <<<<"Debugging transaction:", signature>>,
                        <<"Starting with RPC URL:", cli.rpcUrl,
                          "Will auto-detect if needed.">>>>])
    /\ UNCHANGED <<localTx, logVars, decVars>>

\* part_006:39-56, part_005:52-54: execute has printed the result and returned;
\* the loop prompts again
TxReturns ==
    /\ cli.mode = "debugTransaction"
    /\ inv[1].pc = "done"
    /\ cli' = [PrintResult(cli, inv[1].result, Undefined, TRUE) EXCEPT !.mode = "menu"]
    /\ inv' = [inv EXCEPT ![1] = IdleInvocation]
    /\ UNCHANGED <<ctorUrl, rpcUrl, connection, localTx, logVars, decVars>>

\* the answers to the prompt for instruction data (part_005:136-163): none, an
\* empty text, or the base64 text AQID
DataAnswers == {Undefined, StringValue(<<>>), StringValue(<<"A","Q","I","D">>)}

\* what is typed at the account prompts before the empty line (part_005:
\* 182-201)
TypedAccounts == {<<>>, <<"acctA">>, <<"shortKey", "acctA">>}

\* part_005:176-204: the account prompts print their heading, and a line for
\* every text that is no key; the keys are kept
AccountPrompts(process, hasAccounts, typed) ==
    IF hasAccounts
    THEN [process EXCEPT !.stdout = @ \o
             <<<<"Enter account addresses one per line. Press Enter twice when done:">>>>
                 \o [n \in 1..Len(SelectSeq(typed, LAMBDA t : ~IsPublicKey(t))) |->
                        <<"Invalid account address. Please try again.">>]]
    ELSE process

\* part_005:175-213: the options debugProgram calls ProgramCommand.execute
\* with: accounts is '[]' or JSON.stringify(accountList), signers is not set
PromptedOptions(data, hasAccounts, typed) ==
    LET accountList == SelectSeq(typed, IsPublicKey)
    IN  [ix |-> data,
         accounts |-> StringValue(
             IF hasAccounts
             THEN JsonStringify(ArrayValue([n \in 1..Len(accountList) |->
                                               StringValue(accountList[n])]))
             ELSE <<"[", "]">>),
         signers |-> Undefined]

\* part_005:55-57, 118-214, program.ts:27-117: 'program' is chosen; the prompts
\* take a valid program id, the instruction data and the accounts, and
\* ProgramCommand.execute is called on options.rpcUrl
ChooseProgram(programId, data, hasAccounts, typed, compiles) ==
    /\ cli.mode = "menu"
    /\ hasAccounts \/ typed = <<>>
    /\ RunProgram(programId, PromptedOptions(data, hasAccounts, typed), cli.rpcUrl,
                  AccountPrompts(Chosen(cli, "program", "debugProgram"), hasAccounts, typed),
                  compiles)
    /\ UNCHANGED <<logVars, decVars>>

\* program.ts:119-126, part_005:55-57: the result is displayed and execute returns;
\* the loop prompts again
ProgramReturns ==
    /\ cli.mode = "debugProgram"
    /\ inv[1].pc = "done"
    /\ cli' = [DisplayResult(cli, inv[1].result) EXCEPT !.mode = "menu"]
    /\ inv' = [inv EXCEPT ![1] = IdleInvocation]
    /\ localTx' = Undefined
    /\ UNCHANGED <<ctorUrl, rpcUrl, connection, logVars, decVars>>

\* anchor-utils.ts:16-52 without idlDir: fetchAnchorIdl resolves to the IDL
\* the cache holds under the id, as JSON.parse reads the file, and to null when
\* there is no file or the file is not JSON, which it warns of
fetchAnchorIdl(disk, programId) ==
    LET held == {n \in 1..Len(disk.idl) : disk.idl[n].name = <<programId, ".json">>}
        idl == disk.idl[CHOOSE n \in held : TRUE].idl
    IN  IF held = {} THEN [found |-> FALSE, warnings |-> <<>>]
        ELSE IF idl = JsonSyntaxError
        THEN [found |-> FALSE,
              warnings |-> <<<<"Error loading cached IDL for", programId,
                               JsonSyntaxError>>>>]
        ELSE [found |-> TRUE, idl |-> idl, warnings |-> <<>>]

\* part_005:241-245: the lines printed for a result, up to the first that
\* throws: reading the name of an IDL that is null, or the length of an
\* instruction list that is not there
FetchedLines(programId, idl) ==
    <<<<"IDL fetched and cached successfully">>, <<"Program:", programId>>>>
        \o (IF idl = Null THEN <<>>
            ELSE <<<<"Name:", idl.name>>, <<"Version:", idl.version>>>>
                     \o (IF "instructions" \in DOMAIN idl
                         THEN <<<<"Instructions:", Len(idl.instructions)>>>>
                         ELSE <<>>))

\* the TypeError that ends the lines of FetchedLines, if any
FetchedError(idl) ==
    IF idl = Null THEN CannotReadProperty("name")
    ELSE IF "instructions" \notin DOMAIN idl
    THEN ErrorObject(<<"Cannot read properties of undefined (reading 'length')">>)
    ELSE Undefined

\* lines 58-60, 219-254: 'fetch-idl' is chosen and the prompt takes a valid
\* program id; the outcome of fetchAnchorIdl is printed inside the try block,
\* whose catch block prints the error
FetchIdl(programId) ==
    /\ cli.mode = "menu"
    /\ LET result == fetchAnchorIdl(cli.disk, programId)
       IN  cli' = [Chosen(cli, "fetch-idl", "menu") EXCEPT
                      !.stdout = <<<<"Fetching IDL...">>>> \o
                          (IF result.found THEN FetchedLines(programId, result.idl)
                           ELSE <<<<"Could not fetch IDL for this program">>,
                                  <<"It might not be an Anchor program or the IDL is not published">>>>),
                      !.stderr = result.warnings \o
                          (IF result.found /\ FetchedError(result.idl) # Undefined
                           THEN <<<<"Error fetching IDL:">>, <<FetchedError(result.idl)>>>>
                           ELSE <<>>)]
    /\ UNCHANGED <<ctorUrl, rpcUrl, connection, inv, localTx, logVars, decVars>>

\* lines 61-63, 260-296: 'change-rpc' is chosen; the connection is replaced
\* outside any try block, then getVersion is awaited
ChangeRpc(network, customUrl) ==
    /\ cli.mode = "menu"
    /\ LET url == IF network = LitCustom THEN customUrl
                  ELSE UrlOfText(getClusterEndpoint(network))
       IN  cli' = IF ConnectionAccepts(url)
                  THEN [Chosen(cli, "change-rpc", "getVersion") EXCEPT
                           !.rpcUrl = url,
                           !.stdout = <<<<"RPC endpoint changed to:", url>>>>]
                  ELSE UnhandledRejection(Chosen(cli, "change-rpc", "getVersion"),
                                          EndpointTypeError)
    /\ UNCHANGED <<ctorUrl, rpcUrl, connection, inv, localTx, logVars, decVars>>

\* lines 298-306: getVersion settles inside the try block; the loop prompts again
AfterVersion(ok) ==
    /\ cli.mode = "getVersion"
    /\ cli' = [cli EXCEPT !.mode = "menu",
                          !.stdout = @ \o (IF ok THEN <<<<"Connection successful">>,
                                                        <<"Solana version:", "version">>>>
                                           ELSE <<<<"Connection failed">>>>),
                          !.stderr = IF ok THEN @ ELSE Append(@, <<TransportFailure>>)]
    /\ UNCHANGED <<ctorUrl, rpcUrl, connection, inv, localTx, logVars, decVars>>

\* lines 64-66, 70: 'exit' is chosen; the loop ends and execute returns
ChooseExit ==
    /\ cli.mode = "menu"
    /\ cli' = ProcessEnds([Chosen(cli, "exit", "menu") EXCEPT
                              !.stdout = <<<<"Exiting interactive session. Goodbye!">>>>])
    /\ UNCHANGED <<ctorUrl, rpcUrl, connection, inv, localTx, logVars, decVars>>

\* cli/index.ts:78-88 and part_005:27-33: the interactive command starts on
\* the endpoint of --url.  new Connection (line 28) is outside any try block:
\* when it throws, execute rejects with no handler and the process ends before
\* the menu; else the session greets and shows the menu
Interactive(network) ==
    /\ cli.mode = "shell"
    /\ cli' = IF ConnectionAccepts(EndpointOfOption(network))
              THEN Menu(cli, EndpointOfOption(network))
              ELSE UnhandledRejection([cli EXCEPT !.stdout = Banner], EndpointTypeError)
    /\ UNCHANGED <<ctorUrl, rpcUrl, connection, inv, localTx, logVars, decVars>>

InitInteractive ==
    /\ ctorUrl = DevnetUrl
    /\ rpcUrl = ctorUrl
    /\ connection = ctorUrl
    /\ inv = [i \in Invocations |-> IdleInvocation]
    /\ localTx = Undefined
    /\ cli \in {Session(disk) : disk \in SessionDisks}
    /\ logs = <<>>
    /\ phase = "idle"
    /\ grouped = EmptyObject
    /\ successful = "unset"
    /\ NoDecoding

\* the menu is answered over and over, whatever the endpoints answer
NextInteractive ==
    \/ \E network \in UrlOptions : Interactive(network)
    \/ \E signature \in Signatures : ChooseTx(signature)
    \/ Settle(1, ProbeAnswers, AccountAnswers, SimulationValues)
    \/ TxReturns
    \/ \E programId \in {"progP", "progQ"}, data \in DataAnswers, compiles \in BOOLEAN :
           \/ ChooseProgram(programId, data, FALSE, <<>>, compiles)
           \/ \E typed \in TypedAccounts :
                  ChooseProgram(programId, data, TRUE, typed, compiles)
    \/ \E answer \in AccountAnswers : AfterLocalAccount(1, answer)
    \/ AfterLocalLabel(1)
    \/ \E value \in SimulationValues : AfterLocalDryRun(1, value)
    \/ LocalDryRunFails(1)
    \/ AfterSimulateTransaction(1)
    \/ ProgramReturns
    \/ \E programId \in {"progP", "progQ", SystemProgramId} : FetchIdl(programId)
    \/ \E network \in NetworkChoices, customUrl \in CustomUrls :
           ChangeRpc(network, customUrl)
    \/ \E ok \in BOOLEAN : AfterVersion(ok)
    \/ ChooseExit

SpecInteractive == InitInteractive /\ [][NextInteractive]_vars

(***************************************************************************)
(* Vocabulary of the claims about the log parser.                          *)
(***************************************************************************)
\* the line is an invoke line of the runtime at depth 1: "Program <id> invoke [1]"
IsDepth1InvokeLine(line) == \E id \in ProgramIds : line = InvokeLine(id, <<"1">>)

\* the positions of the depth-1 invoke lines of a stream
Depth1Positions(stream) == {i \in 1..Len(stream) : IsDepth1InvokeLine(stream[i])}

\* the buckets of an object, concatenated in key order
RECURSIVE FlattenFrom(_, _)
FlattenFrom(obj, k) ==
    IF k \notin DOMAIN obj THEN <<>> ELSE obj[k] \o FlattenFrom(obj, k + 1)

\* a is b with some positions left out
RECURSIVE IsSubsequence(_, _)
IsSubsequence(a, b) ==
    IF Len(a) = 0 THEN TRUE
    ELSE IF Len(b) = 0 THEN FALSE
    ELSE IF Head(a) = Head(b) THEN IsSubsequence(Tail(a), Tail(b)) \/ IsSubsequence(a, Tail(b))
    ELSE IsSubsequence(a, Tail(b))

\* the line carries a failure marker
HasFailureMarker(line) == Includes(line, LitFailed) \/ Includes(line, LitErrorColon)

\* C7: a stream with K depth-1 invoke lines yields exactly K buckets keyed 1..K,
\* bucket k opened by the k-th depth-1 invoke line; the buckets taken together are
\* lines of the stream after its first depth-1 invoke line, each at most once, in
\* stream order; no depth-1 invoke line yields the empty mapping.
C7_BucketsPerDepth1Invoke ==
    phase = "parsed" =>
        LET pos == Depth1Positions(logs)
            K == Cardinality(pos)
            first == IF pos = {} THEN Len(logs) + 1
                     ELSE CHOOSE p \in pos : \A q \in pos : p <= q
        IN  /\ DOMAIN grouped = 1..K
            /\ \A k \in DOMAIN grouped :
                   Len(grouped[k]) >= 1 /\ IsDepth1InvokeLine(grouped[k][1])
            /\ IsSubsequence(FlattenFrom(grouped, 1), SubSeq(logs, first, Len(logs)))

\* C8: a stream of one depth-1 invoke line followed by N further lines of any
\* content yields the single bucket 1 holding all N+1 lines in order.
C8_SingleBucketKeepsAllLines ==
    (phase = "parsed" /\ Depth1Positions(logs) = {1}) =>
        (DOMAIN grouped = {1} /\ grouped[1] = logs)

\* C10: isTransactionSuccessful is false exactly when one of the last five lines,
\* or any line, carries a failure marker ('failed' or 'Error:'), and true otherwise.
C10_SuccessUnlessFailureIndicated ==
    phase = "judged" =>
        (successful =
            ~(\/ \E i \in 1..Len(SliceLast(logs, LastFew)) :
                     HasFailureMarker(SliceLast(logs, LastFew)[i])
              \/ \E i \in 1..Len(logs) : HasFailureMarker(logs[i])))

(***************************************************************************)
(* Vocabulary of the claims about the instruction decoder.                 *)
(***************************************************************************)
\* the instructions an IDL declares (none when it is null or has no list)
DeclaredBy(idl) ==
    IF idl = Null \/ idl = Undefined THEN <<>>
    ELSE IF HasNoInstructions(idl) THEN <<>>
    ELSE idl.instructions

\* the payload is a byte buffer
IsBufferPayload == givenIx # Undefined /\ givenIx.data.kind = "Buffer"

\* the leading 8 bytes of the payload are the discriminator of a declared instruction
MatchesDeclared ==
    /\ IsBufferPayload
    /\ Len(givenIx.data.bytes) >= 8
    /\ \E n \in 1..Len(DeclaredBy(anchorIdl)) :
           deriveInstructionDiscriminator(DeclaredBy(anchorIdl)[n].name)
               = SubSeq(givenIx.data.bytes, 1, 8)

\* the first declared instruction whose discriminator the payload leads with
MatchedSchema ==
    LET l == DeclaredBy(anchorIdl)
        hits == {n \in 1..Len(l) :
                    deriveInstructionDiscriminator(l[n].name)
                        = SubSeq(givenIx.data.bytes, 1, 8)}
    IN  l[CHOOSE n \in hits : \A h \in hits : n <= h]

\* the decoder returned a decoded instruction
ReturnedDecoded == decoded.kind = "return" /\ decoded.value # Null

\* the bytes of the payload after the discriminator
ArgumentBytes ==
    IF Len(givenIx.data.bytes) <= 8 THEN <<>>
    ELSE SubSeq(givenIx.data.bytes, 9, Len(givenIx.data.bytes))

\* the bytes the canonical encoding of a field of the type takes
TypeSize(type) == IF type = "u64" THEN 8 ELSE 0

RECURSIVE LayoutSize(_)
LayoutSize(fields) ==
    IF Len(fields) = 0 THEN 0 ELSE TypeSize(Head(fields).type) + LayoutSize(Tail(fields))

\* the canonical encoding of a u64: 8 bytes, little-endian
RECURSIVE EncodeLE(_, _)
EncodeLE(value, width) ==
    IF width = 0 THEN <<>> ELSE <<value % 256>> \o EncodeLE(value \div 256, width - 1)

\* the values of an argument of type u64 the round trip is tried on
ArgValues == {0, 1000}

\* the first 8 bytes of a name, zero-padded
LeadingBytesOf(name) ==
    [i \in 1..8 |-> IF i <= Len(name) THEN Utf8Code[name[i]] ELSE 0]

\* C11: decodeAnchorInstruction never throws, and it returns null for every
\* payload whose leading 8 bytes are the discriminator of no declared
\* instruction: also when the payload is shorter than 8 bytes and when the IDL
\* has no instruction list.
C11_UnmatchedIsNull ==
    phase = "decoded" =>
        /\ decoded.kind = "return"
        /\ (IsBufferPayload /\ ~MatchesDeclared) => decoded.value = Null

\* the 4-byte payload 'init' was decoded against an IDL that declares 'init'
C11_Witness ==
    /\ phase = "decoded"
    /\ givenIx.data = BufferData(<<105, 110, 105, 116>>)
    /\ \E n \in 1..Len(DeclaredBy(anchorIdl)) : DeclaredBy(anchorIdl)[n].name = NameInit
    /\ decoded = Returned(Null)

\* C12: a payload that leads with a declared discriminator and whose argument
\* bytes are shorter or longer than the schema's field layout is not returned as
\* a decoded instruction.
C12_MalformedArgsRejected ==
    (phase = "decoded" /\ MatchesDeclared
        /\ Len(ArgumentBytes) # LayoutSize(MatchedSchema.args)) => ~ReturnedDecoded

\* C13: decoding discriminator(name) || encoding(value) against an IDL that
\* declares name with the fields [amount: u64] yields name and {amount: value}.
C13_RoundTrip ==
    \A n \in 1..Len(DeclaredBy(anchorIdl)), v \in ArgValues :
        LET schema == DeclaredBy(anchorIdl)[n]
        IN  (/\ phase = "decoded"
             /\ schema.args = <<AmountField>>
             /\ givenIx.data =
                    BufferData(deriveInstructionDiscriminator(schema.name) \o EncodeLE(v, 8))) =>
                /\ ReturnedDecoded
                /\ decoded.value.name = schema.name
                /\ DOMAIN decoded.value.args = {"amount"}
                /\ decoded.value.args.amount = v

\* C14: the discriminator derived from a name is not the name's own leading
\* bytes, and two declared names that differ only after their 8th byte get
\* different discriminators.
C14_DiscriminatorIsHash ==
    phase = "decoded" =>
        \A k \in 1..Len(derived) :
            /\ derived[k] # LeadingBytesOf(anchorIdl.instructions[k].name)
            /\ \A j \in 1..Len(derived) :
                   (/\ anchorIdl.instructions[j].name # anchorIdl.instructions[k].name
                    /\ LeadingBytesOf(anchorIdl.instructions[j].name)
                           = LeadingBytesOf(anchorIdl.instructions[k].name)) =>
                       derived[j] # derived[k]

\* C15: the IDL a simulator holds for a program has no two differently named
\* instructions with the same discriminator, and a payload decoded against it
\* leads with the discriminator of one name only.
C15_DiscriminatorsUnique ==
    phase \in {"constructed", "decoded"} =>
        \A a, b \in 1..Len(DeclaredBy(anchorIdl)) :
            DeclaredBy(anchorIdl)[a].name # DeclaredBy(anchorIdl)[b].name =>
                deriveInstructionDiscriminator(DeclaredBy(anchorIdl)[a].name)
                    # deriveInstructionDiscriminator(DeclaredBy(anchorIdl)[b].name)

(***************************************************************************)
(* Vocabulary of the claims about debugSignature.                          *)
(***************************************************************************)
\* the invocations that have been entered
Entered == {i \in Invocations : inv[i].pc # "idle"}

\* the well-known network an endpoint belongs to
NetworkOf(url) ==
    CASE url = MainnetUrl -> "mainnet"
      [] url = DevnetUrl -> "devnet"
      [] url = TestnetUrl -> "testnet"
      [] url = LocalUrl -> "unknown network"

\* the fallback list without the network the search started on
FallbackAfter(start) ==
    LET NotStart(url) == url # start
    IN  SelectSeq(FallbackUrls, NotStart)

\* the probes of an invocation after its first one
FallbackProbes(i) == SubSeq(inv[i].probes, 2, Len(inv[i].probes))

IsPrefix(a, b) == Len(a) <= Len(b) /\ a = SubSeq(b, 1, Len(a))

\* invocation i found its transaction on a fallback network
LocatedOnFallback(i) ==
    /\ inv[i].transaction # NoTransaction
    /\ Len(inv[i].probes) >= 2

\* invocation i returned an assembled trace
HasTrace(i) == inv[i].pc = "done" /\ "network" \in DOMAIN inv[i].result

\* every probe of invocation i was answered 'not found' and the search is over
AbsentEverywhere(i) ==
    /\ inv[i].pc = "done"
    /\ Len(inv[i].answers) = Len(inv[i].probes)
    /\ \A k \in 1..Len(inv[i].answers) : inv[i].answers[k] = "null"

\* the result of invocation i is the NotFound failure
ReportsNotFound(i) ==
    /\ ~inv[i].threw
    /\ inv[i].result = [signature |-> inv[i].signature,
                        success |-> FALSE,
                        error |-> <<"Transaction", inv[i].signature,
                                    "not found on any network">>,
                        instructions |-> <<>>]

\* C1: the fallback probes of an invocation are made only after a not-found on
\* its first network with fallback enabled, follow the order mainnet, devnet,
\* testnet without the network tried first, none is made after a probe that
\* returned the transaction, and a search that ends not found has made them all.
C1_FallbackOrder ==
    \A i \in Entered :
        /\ IsPrefix(FallbackProbes(i), FallbackAfter(inv[i].probes[1]))
        /\ Len(inv[i].probes) >= 2 =>
               (inv[i].answers[1] = "null" /\ ~inv[i].skipNetworkFallback)
        /\ \A k \in 1..Len(inv[i].answers) :
               inv[i].answers[k] = "found" => k = Len(inv[i].probes)
        /\ (AbsentEverywhere(i) /\ ~inv[i].skipNetworkFallback) =>
               FallbackProbes(i) = FallbackAfter(inv[i].probes[1])

\* an invocation started on devnet, skipped it in the fallback list, and found
\* the transaction on testnet after mainnet
C1_Witness ==
    \E i \in Entered :
        /\ inv[i].probes = <<DevnetUrl, MainnetUrl, TestnetUrl>>
        /\ inv[i].answers = <<"null", "null", "found">>

\* C2: after a not-found on A and a hit on fallback network B, the simulator is
\* switched to B, every later call of the invocation is issued on B, and the
\* trace carries B's record and B's network name.
C2_SwitchToFallback ==
    \A i \in Entered :
        LocatedOnFallback(i) =>
            LET A == inv[i].probes[1]
                B == inv[i].probes[Len(inv[i].probes)]
            IN  /\ inv[i].transaction.source = B
                /\ rpcUrl = B /\ connection = B
                /\ \A c \in 1..Len(inv[i].calls) : inv[i].calls[c][2] = B
                /\ HasTrace(i) =>
                       /\ inv[i].result.network = NetworkOf(B)
                       /\ inv[i].result.network # NetworkOf(A)
                       /\ inv[i].result.slot = SlotOn(B)

\* a trace of a transaction absent on the local network and found on devnet
C2_Witness ==
    \E i \in Entered :
        /\ HasTrace(i)
        /\ inv[i].probes = <<LocalUrl, MainnetUrl, DevnetUrl>>
        /\ inv[i].result.network = "devnet"
        /\ Len(inv[i].calls) >= 3

\* C3: a transaction absent on every probed network makes debugSignature return
\* the NotFound failure (success false, an error description, no instruction)
\* without any account fetch or dry-run.
C3_NotFoundEverywhere ==
    \A i \in Entered :
        AbsentEverywhere(i) => (ReportsNotFound(i) /\ inv[i].calls = <<>>)

\* a search that tried the local network and the three fallback networks in vain
C3_Witness ==
    \E i \in Entered :
        /\ AbsentEverywhere(i)
        /\ inv[i].probes = <<LocalUrl, MainnetUrl, DevnetUrl, TestnetUrl>>

\* C4: with skipNetworkFallback the only probe is on the network the simulator
\* was constructed with, the simulator stays on that network, and a not-found
\* there is reported as NotFound.
C4_SkipProbesOnlySelected ==
    \A i \in Entered :
        inv[i].skipNetworkFallback =>
            /\ inv[i].probes = <<ctorUrl>>
            /\ rpcUrl = ctorUrl /\ connection = ctorUrl
            /\ AbsentEverywhere(i) => ReportsNotFound(i)

\* C5: every invocation starts its search on the network the simulator was
\* constructed with.
C5_StartsOnSelected ==
    \A i \in Entered : inv[i].probes[1] = ctorUrl

\* C6: whatever the interleaving, every call an invocation makes after locating
\* its transaction is issued on the network it located it on, and its trace names
\* that network.
C6_NoInterference ==
    \A i \in Entered :
        inv[i].transaction # NoTransaction =>
            /\ \A c \in 1..Len(inv[i].calls) :
                   inv[i].calls[c][2] = inv[i].transaction.source
            /\ HasTrace(i) =>
                   inv[i].result.network = NetworkOf(inv[i].transaction.source)

\* the bucket opened by the n-th depth-1 invoke line of a stream: that line and
\* the lines up to the next depth-1 invoke line
BucketOpenedBy(stream, n) ==
    LET pos == Depth1Positions(stream)
        from == CHOOSE p \in pos : Cardinality({q \in pos : q <= p}) = n
        later == {q \in pos : q > from}
        to == IF later = {} THEN Len(stream)
              ELSE (CHOOSE q \in later : \A r \in later : q <= r) - 1
    IN  SubSeq(stream, from, to)

\* C9: in the trace of a transaction of K instructions whose dry-run logs have K
\* depth-1 invoke lines, the DebugInstruction at position i (from 0) carries the
\* bucket opened by the (i+1)-th depth-1 invoke line.
C9_LogsBelongToInstruction ==
    \A i \in Entered :
        LET message == MessageOf(inv[i].signature)
            stream == LogsOrEmpty(inv[i].simulation)
        IN  (/\ HasTrace(i)
             /\ "instructions" \in DOMAIN message
             /\ Cardinality(Depth1Positions(stream)) = Len(message.instructions)) =>
                \A n \in 1..Len(message.instructions) :
                    /\ inv[i].result.instructions[n].instructionIndex = n - 1
                    /\ inv[i].result.instructions[n].logs = BucketOpenedBy(stream, n)

(***************************************************************************)
(* Vocabulary of the claims about the account diffs.                       *)
(***************************************************************************)
\* the trace of invocation i lists the instructions of a legacy message
HasLegacyTrace(i) == HasTrace(i) /\ "instructions" \in DOMAIN MessageOf(inv[i].signature)

\* the AccountDiff records of the trace of invocation i
DiffsOf(i) ==
    UNION {{inv[i].result.instructions[n].accountDiffs[k] :
               k \in 1..Len(inv[i].result.instructions[n].accountDiffs)} :
           n \in 1..Len(inv[i].result.instructions)}

\* the fields an AccountDiff reports as changed
ChangedFields(d) ==
    {f \in DOMAIN d.changes :
        IF f = "data" THEN d.changes.data = TRUE ELSE d.changes[f] # Undefined}

\* the value of a field of an account state, for the fields of `changes`
FieldOf(state, f) ==
    CASE f = "balance" -> state.account.lamports
      [] f = "data" -> state.account.data
      [] f = "owner" -> state.account.owner
      [] f = "executable" -> state.account.executable
      [] f = "rentEpoch" -> state.account.rentEpoch

\* C16: a field of an AccountDiff is reported as changed only if its before and
\* after values differ, and a diff of a state against itself reports no field.
C16_ChangedOnlyIfDiffers ==
    \A i \in Entered :
        HasTrace(i) =>
            \A d \in DiffsOf(i) :
                /\ \A f \in ChangedFields(d) :
                       /\ f \in {"balance", "data", "owner", "executable", "rentEpoch"}
                       /\ FieldOf(d.before, f) # FieldOf(d.after, f)
                /\ d.before = d.after => ChangedFields(d) = {}

\* a trace whose second instruction carries the diffs of its two accounts
C16_Witness ==
    \E i \in Entered :
        /\ HasLegacyTrace(i)
        /\ Len(inv[i].result.instructions[2].accountDiffs) = 2
        /\ inv[i].result.instructions[2].accountDiffs[1].before.account.lamports = 500

\* C17: every account an instruction touches has an AccountDiff, in which an
\* account that did not exist before the transaction has before absent, so that
\* creation and closing are represented and differ from a balance of zero.
C17_AbsenceRepresented ==
    \A i \in Entered :
        HasLegacyTrace(i) =>
            LET message == MessageOf(inv[i].signature)
            IN  \A n \in 1..Len(message.instructions) :
                    \A a \in 1..Len(message.instructions[n].accounts) :
                        LET account == At(message.accountKeys,
                                          message.instructions[n].accounts[a])
                        IN  \E k \in 1..Len(inv[i].result.instructions[n].accountDiffs) :
                                LET d == inv[i].result.instructions[n].accountDiffs[k]
                                IN  /\ d.pubkey = account
                                    /\ account \in inv[i].absent => d.before = Null

(***************************************************************************)
(* Vocabulary of the claims about the dry-run.                             *)
(***************************************************************************)
\* invocation i is one of debugLocalTransaction
IsLocal(i) == inv[i].given # Undefined

\* the dry-run of invocation i settled with a value and the invocation returned
DryRunCompleted(i) == inv[i].pc = "done" /\ inv[i].simulation # Undefined

\* the instructions of the transaction invocation i debugs, as the trace lists
\* them: a versioned transaction found by signature is listed as one instruction
InstructionCount(i) ==
    IF IsLocal(i) THEN Len(LocalInstructions(inv[i].given))
    ELSE IF "instructions" \in DOMAIN MessageOf(inv[i].signature)
    THEN Len(MessageOf(inv[i].signature).instructions)
    ELSE 1

\* the log lines of the instructions of a trace, one instruction after the
\* other
RECURSIVE TraceLogs(_)
TraceLogs(instructions) ==
    IF instructions = <<>> THEN <<>>
    ELSE Head(instructions).logs \o TraceLogs(Tail(instructions))

\* the dry-run calls invocation i has issued
DryRunCalls(i) ==
    {c \in 1..Len(inv[i].calls) : inv[i].calls[c][1] = "simulateTransaction"}

\* the dry-run call of invocation i was rejected and the invocation returned
DryRunRejected(i) ==
    /\ inv[i].pc = "done"
    /\ inv[i].simulation = Undefined
    /\ Len(inv[i].calls) >= 1
    /\ inv[i].calls[Len(inv[i].calls)][1] = "simulateTransaction"

\* C18: a dry-run that completes with err set still gives a trace: success is
\* false, error describes err, and the instruction list is not emptied: it has
\* every instruction of the transaction, and the log lines of its instructions
\* are lines of the dry-run's log stream, in the order of the stream.
C18_FailedDryRunIsAssembled ==
    \A i \in Entered :
        (DryRunCompleted(i) /\ inv[i].simulation.err # Null) =>
            /\ inv[i].result.success = FALSE
            /\ inv[i].result.error = JsonStringify(inv[i].simulation.err)
            /\ InstructionCount(i) >= 1
            /\ Len(inv[i].result.instructions) = InstructionCount(i)
            /\ IsSubsequence(TraceLogs(inv[i].result.instructions),
                             LogsOrEmpty(inv[i].simulation))

\* C19: an invocation calls the dry-run endpoint at most once, and when that
\* call is rejected it returns success false with the rejection's description
\* as the error.
C19_DryRunFailureSurfaced ==
    \A i \in Entered :
        /\ Cardinality(DryRunCalls(i)) <= 1
        /\ DryRunRejected(i) =>
               /\ ~inv[i].threw
               /\ inv[i].result.success = FALSE
               /\ inv[i].result.error = TransportFailure.message

\* a rejected dry-run of a transaction found on the first probe
C19_Witness ==
    \E i \in Entered :
        /\ DryRunRejected(i)
        /\ Cardinality(DryRunCalls(i)) = 1
        /\ inv[i].result.error = <<"fetch failed">>

\* C20: during and after debugLocalTransaction the caller's transaction is as
\* the caller handed it over: instructions, accounts, fee payer and recent
\* blockhash.
C20_CallerTransactionUnchanged ==
    \A i \in Entered : IsLocal(i) => localTx = inv[i].given

(***************************************************************************)
(* Vocabulary of the claims about the command line.                        *)
(***************************************************************************)
\* the tx command ran debugSignature and the process has ended
CommandEnded ==
    cli.mode = "ended" /\ inv[1].signature # "none" /\ inv[1].result # NoResult

\* the debugging by signature failed
DebugFailed == ~inv[1].result.success

\* the process printed an error message
PrintedError ==
    \/ cli.stderr # <<>>
    \/ \E n \in 1..Len(cli.stdout) : cli.stdout[n][1] = "Transaction simulation failed:"

\* C21: when debugging by signature fails, the tx command ends with a failure
\* exit status and an error message, never with status 0.
C21_FailedDebugExitsNonZero ==
    (CommandEnded /\ DebugFailed) => (cli.exitCode # 0 /\ PrintedError)

(***************************************************************************)
(* Vocabulary of the claims about the re-derived transaction.              *)
(***************************************************************************)
Base58Alphabet ==
    <<"1","2","3","4","5","6","7","8","9","A","B","C","D","E","F","G","H","J","K",
      "L","M","N","P","Q","R","S","T","U","V","W","X","Y","Z","a","b","c","d","e",
      "f","g","h","i","j","k","m","n","o","p","q","r","s","t","u","v","w","x","y",
      "z">>

\* the digit a character of a base-58 string stands for
Base58Digit(c) == (CHOOSE k \in 1..Len(Base58Alphabet) : Base58Alphabet[k] = c) - 1

\* the number a base-58 string denotes
RECURSIVE Base58Value(_)
Base58Value(text) ==
    IF text = <<>> THEN 0
    ELSE Base58Value(SubSeq(text, 1, Len(text) - 1)) * 58 + Base58Digit(text[Len(text)])

\* the big-endian bytes of a number
RECURSIVE BigEndian(_)
BigEndian(v) == IF v = 0 THEN <<>> ELSE BigEndian(v \div 256) \o <<v % 256>>

\* the zero bytes the leading '1' characters stand for
RECURSIVE LeadingZeros(_)
LeadingZeros(text) ==
    IF text # <<>> /\ text[1] = "1" THEN <<0>> \o LeadingZeros(Tail(text)) ELSE <<>>

\* the bytes a base-58 string encodes
Base58Decode(text) == LeadingZeros(text) \o BigEndian(Base58Value(text))

\* whether the account at an index of the message signs / is writable, by the
\* header of the message
SignsInOriginal(message, index) == index < message.header.numRequiredSignatures

WritableInOriginal(message, index) ==
    LET numSigned == message.header.numRequiredSignatures
        numKeys == Len(AccountKeysOf(message))
    IN  IF index >= numSigned
        THEN index - numSigned
                 < (numKeys - numSigned) - message.header.numReadonlyUnsignedAccounts
        ELSE index < numSigned - message.header.numReadonlySignedAccounts

\* one instruction of the original: its program, its accounts in order with
\* the flags of the original message, and its data bytes
OriginalInstruction(message, programIdIndex, accounts, bytes) ==
    [programId |-> At(AccountKeysOf(message), programIdIndex),
     keys |-> [n \in 1..Len(accounts) |->
                  [pubkey |-> At(AccountKeysOf(message), accounts[n]),
                   isSigner |-> SignsInOriginal(message, accounts[n]),
                   isWritable |-> WritableInOriginal(message, accounts[n])]],
     data |-> BufferData(bytes)]

\* the instructions of the original transaction, in order
OriginalInstructions(message) ==
    IF "instructions" \in DOMAIN message
    THEN [n \in 1..Len(message.instructions) |->
             OriginalInstruction(message, message.instructions[n].programIdIndex,
                                 message.instructions[n].accounts,
                                 Base58Decode(message.instructions[n].data.text))]
    ELSE [n \in 1..Len(message.compiledInstructions) |->
             OriginalInstruction(message, message.compiledInstructions[n].programIdIndex,
                                 message.compiledInstructions[n].accountKeyIndexes,
                                 message.compiledInstructions[n].data)]

\* C22: the transaction handed to the dry-run has the instructions of the
\* original, in order, each with the same program, accounts, data and
\* signer/writable flags; only the blockhash is the recent one.
C22_RebuiltIsEquivalent ==
    \A i \in Invocations :
        inv[i].rebuilt # Undefined =>
            /\ inv[i].rebuilt.instructions = OriginalInstructions(MessageOf(inv[i].signature))
            /\ inv[i].rebuilt.feePayer = At(AccountKeysOf(MessageOf(inv[i].signature)), 0)
            /\ inv[i].rebuilt.recentBlockhash = LatestBlockhash

(***************************************************************************)
(* Vocabulary of the claims about the assembled trace.                     *)
(***************************************************************************)
\* the programs of the instructions of the transaction invocation i debugs, in
\* the order of the transaction
ProgramsOf(i) ==
    IF IsLocal(i)
    THEN [n \in 1..Len(LocalInstructions(inv[i].given)) |->
             IF IsLegacyTx(inv[i].given)
             THEN inv[i].given.instructions[n].programId
             ELSE At(inv[i].given.message.staticAccountKeys,
                     inv[i].given.message.compiledInstructions[n].programIdIndex)]
    ELSE [n \in 1..Len(OriginalInstructions(MessageOf(inv[i].signature))) |->
             OriginalInstructions(MessageOf(inv[i].signature))[n].programId]

\* C23: an assembled trace has one DebugInstruction per instruction of the
\* transaction, in order, with instructionIndex its position and programId the
\* program of that instruction, for legacy and versioned transactions alike.
C23_OneDebugInstructionPerInstruction ==
    \A i \in Entered :
        DryRunCompleted(i) =>
            /\ Len(inv[i].result.instructions) = Len(ProgramsOf(i))
            /\ \A n \in 1..Len(inv[i].result.instructions) :
                   /\ inv[i].result.instructions[n].instructionIndex = n - 1
                   /\ inv[i].result.instructions[n].programId = ProgramsOf(i)[n]

\* the accounts of the instruction at position n (from 1) of the transaction
\* invocation i debugs, in the order of the instruction's account list
AccountsOf(i, n) ==
    IF IsLocal(i)
    THEN IF IsLegacyTx(inv[i].given)
         THEN [k \in 1..Len(inv[i].given.instructions[n].keys) |->
                  inv[i].given.instructions[n].keys[k].pubkey]
         ELSE [k \in 1..Len(inv[i].given.message.compiledInstructions[n].accountKeyIndexes) |->
                  At(inv[i].given.message.staticAccountKeys,
                     inv[i].given.message.compiledInstructions[n].accountKeyIndexes[k])]
    ELSE [k \in 1..Len(OriginalInstructions(MessageOf(inv[i].signature))[n].keys) |->
             OriginalInstructions(MessageOf(inv[i].signature))[n].keys[k].pubkey]

\* C24: the accountDiffs of a DebugInstruction hold one AccountDiff per account
\* of the instruction, in the order of its account list, whether or not the
\* account's information could be fetched, for debugSignature and for
\* debugLocalTransaction.
C24_OneDiffPerAccount ==
    \A i \in Entered :
        DryRunCompleted(i) =>
            \A n \in 1..Len(inv[i].result.instructions) :
                n <= Len(ProgramsOf(i)) =>
                    /\ Len(inv[i].result.instructions[n].accountDiffs) = Len(AccountsOf(i, n))
                    /\ \A k \in 1..Len(inv[i].result.instructions[n].accountDiffs) :
                           inv[i].result.instructions[n].accountDiffs[k].pubkey
                               = AccountsOf(i, n)[k]

\* invocation i captured account states after its dry-run: the dry-run's value
\* carries the accounts, or getAccountInfo was called after simulateTransaction
CapturedAfterDryRun(i) ==
    \/ "accounts" \in DOMAIN inv[i].simulation
    \/ \E c \in 1..Len(inv[i].calls) :
           /\ inv[i].calls[c][1] = "getAccountInfo"
           /\ \E r \in 1..(c - 1) : inv[i].calls[r][1] = "simulateTransaction"

\* C25: the after snapshot of every AccountDiff is a capture taken after the
\* dry-run, from the dry-run's result or a fetch that follows it, never the
\* before snapshot, so that a balance the transaction changes shows as (b, b').
C25_AfterIsPostSimulationCapture ==
    \A i \in Entered :
        HasTrace(i) => \A d \in DiffsOf(i) : CapturedAfterDryRun(i)

(***************************************************************************)
(* Vocabulary of the claims about the search.                              *)
(***************************************************************************)
\* the search of invocation i found the transaction
Located(i) == inv[i].transaction # NoTransaction

\* invocation i returned a failure that says the transaction was not found
ReportedNotFound(i) ==
    /\ inv[i].pc = "done"
    /\ inv[i].result # NoResult
    /\ ~inv[i].result.success
    /\ inv[i].result.error \in {formatError(NotFoundOnAnyNetwork(inv[i].signature)),
                                formatError(NotFoundOnRefetch(inv[i].signature))}

\* C26: an invocation whose search found the transaction goes on to the dry-run
\* with the record it found and is never reported as not found, whatever a
\* later lookup of the signature returns.
C26_LocatedNeverNotFound ==
    \A i \in Entered : Located(i) => ~ReportedNotFound(i)

\* the probe k of invocation i was rejected by the transport
ProbeRejected(i, k) == k <= Len(inv[i].answers) /\ inv[i].answers[k] = "throw"

\* the invocation failed at once on the transport failure, with no other call
FailedAtOnce(i) ==
    /\ inv[i].pc = "done"
    /\ ~inv[i].threw
    /\ inv[i].result = FailureTrace(inv[i].signature, TransportFailure)
    /\ Len(inv[i].probes) = 1
    /\ inv[i].calls = <<>>

\* after its probe k the search of invocation i went on as after a not-found:
\* with the next network of the list, or, the list exhausted, with NotFound
WentOnAfter(i, k) ==
    IF k <= Len(FallbackAfter(inv[i].probes[1]))
    THEN /\ Len(inv[i].probes) > k
         /\ inv[i].probes[k + 1] = FallbackAfter(inv[i].probes[1])[k]
    ELSE /\ Len(inv[i].probes) = k
         /\ ReportsNotFound(i)

\* C27: a transport failure of the probe of the caller's network fails the
\* request at once with no fallback probe; a transport failure of a fallback
\* probe is taken as a not-found and the search goes on with the next network.
C27_TransportFailureStopsOnlyPrimary ==
    \A i \in Entered :
        /\ ProbeRejected(i, 1) => FailedAtOnce(i)
        /\ \A k \in 2..Len(inv[i].answers) : ProbeRejected(i, k) => WentOnAfter(i, k)

\* a search whose first fallback probe was rejected and that probed the next
\* network, and which ended not found after a rejected last probe
C27_Witness ==
    \E i \in Entered :
        /\ Len(inv[i].answers) >= 2
        /\ inv[i].answers[1] = "null"
        /\ ProbeRejected(i, 2)
        /\ Len(inv[i].probes) >= 3
        /\ ProbeRejected(i, Len(inv[i].probes))
        /\ ReportsNotFound(i)

(***************************************************************************)
(* Vocabulary of the claims about the returned DebugTransaction.           *)
(***************************************************************************)
\* the invocations that returned a DebugTransaction
ReturnedTrace == {i \in Invocations : inv[i].pc = "done" /\ inv[i].result # NoResult}

\* the DebugTransaction carries an error (a value other than undefined)
ErrorPresent(result) == ToString(result.error) # ToString(Undefined)

\* C28: in every DebugTransaction that debugSignature or debugLocalTransaction
\* returns, on any path, error is present exactly when success is false, and
\* the result of debugSignature carries the signature that was asked for.
C28_ErrorIffNotSuccess ==
    \A i \in ReturnedTrace :
        /\ ErrorPresent(inv[i].result) <=> ~inv[i].result.success
        /\ ~IsLocal(i) => inv[i].result.signature = inv[i].signature

\* a debugSignature call whose dry-run completed with an error descriptor, so
\* that the assembled trace carries both success false and the error
C28_Witness ==
    \E i \in ReturnedTrace :
        /\ ~IsLocal(i)
        /\ DryRunCompleted(i)
        /\ inv[i].simulation.err # Null
        /\ ~inv[i].result.success
        /\ ErrorPresent(inv[i].result)
        /\ inv[i].result.signature = "sigLegacy"

(***************************************************************************)
(* Vocabulary of the claim about the lines that open a bucket.             *)
(***************************************************************************)
\* the line was emitted by a program: "Program log: <text>"
IsProgramEmitted(line) == StartsWith(line, LitProgramLogSp)

\* the depth-1 invoke lines of the runtime before position p of a stream
Depth1Before(stream, p) == {q \in 1..(p - 1) : IsDepth1InvokeLine(stream[q])}

\* C29: only an invoke line of the runtime, 'Program <id> invoke [1]', opens a
\* bucket; a line emitted by a program never opens one, whatever its text, and
\* is appended as it is to the bucket of the last runtime invoke line.
C29_ProgramLinesNeverOpenBuckets ==
    phase = "parsed" =>
        /\ \A k \in DOMAIN grouped :
               Len(grouped[k]) >= 1 => ~IsProgramEmitted(grouped[k][1])
        /\ \A p \in 1..Len(logs) :
               (IsProgramEmitted(logs[p]) /\ Depth1Before(logs, p) # {}) =>
                   LET k == Cardinality(Depth1Before(logs, p))
                   IN  /\ k \in DOMAIN grouped
                       /\ \E n \in 2..Len(grouped[k]) : grouped[k][n] = logs[p]

(***************************************************************************)
(* Vocabulary of the claim about the interactive session.                  *)
(***************************************************************************)
\* the menu loop is over: the session's process has ended
SessionOver == cli.mode = "ended"

\* C30: the menu loop of the interactive session ends only when Exit is chosen;
\* after any other action, a failing debug action included, the menu is shown
\* again and the process keeps running.
C30_LoopEndsOnlyOnExit ==
    SessionOver => cli.chosen = "exit"

====
